---------------------------- MODULE Spec2Model ----------------------------
(***************************************************************************)
(* Research orchestration pipeline of browser_research:                    *)
(*   - TaskExecutor.execute_research_plan  (orchestration/task_executor.py)*)
(*   - RateLimiter / NavigationManager     (browser/navigation.py)         *)
(*   - BrowserSession.navigate/search/visit_page (browser/browser_session) *)
(*   - RobotsParser.can_fetch              (browser/navigation.py)         *)
(*   - KnowledgeSourceManager.query        (knowledge/source_manager.py)   *)
(*   - ResearchPlanner.create_research_plan (orchestration/research_planner)*)
(* Each subsystem has its own specification over the shared variable tuple *)
(* `vars`; a specification leaves the other subsystems in their initial    *)
(* state.  Coroutines are cut at their suspension points (await).          *)
(***************************************************************************)
EXTENDS Integers, Sequences, FiniteSets, TLC

VARIABLES
    \* ---- TaskExecutor ----
    ex_pc,              \* position of the execute_research_plan coroutine
    plan,               \* research_plan["steps"], a sequence of step types
    step_i,             \* loop index i of the for loop (1-based)
    browser_session,    \* self.browser_session: "None" | "created" | "ready"
    research_results,   \* self.research_results[query_id], or NoRecord
    dispatched,         \* history: indices of the steps handed to _execute_step
    outcomes,           \* history: what each finished dispatch did ("ok" or the raised message)
    \* ---- RateLimiter / NavigationManager ----
    now,                \* time.time(), in seconds
    respect_robots_txt, \* NavigationManager.respect_robots_txt
    requests_per_minute, \* RateLimiter.requests_per_minute
    delay_between_requests, \* RateLimiter.delay_between_requests
    domain_timestamps,  \* RateLimiter.domain_timestamps: domain -> sequence of timestamps
    domain_locks,       \* RateLimiter.domain_locks: domain -> [holder, waiters]
    c_pc,               \* position of each caller of prepare_navigation
    c_url,              \* the url argument of the caller's current call
    c_current_time,     \* the local current_time of acquire
    c_wake,             \* the time at which the caller's asyncio.sleep ends
    c_verdict,          \* the value can_navigate returned in the current call
    c_result,           \* the value prepare_navigation returned
    c_calls,            \* number of prepare_navigation calls started so far
    c_call,             \* history: the number of the caller's current call
    recorded,           \* history: every request recorded by acquire, in order
    \* ---- NavigationManager.can_navigate, called on its own ----
    g_pc,               \* position of the can_navigate coroutine
    g_url,              \* its url argument
    g_respect,          \* respect_robots_txt of the manager it runs on
    g_rules,            \* site_rules of the manager it runs on
    g_robots_allows,    \* what robots_parser.can_fetch answers for the url
    g_robots_calls,     \* number of calls made to robots_parser.can_fetch
    g_verdict,          \* the value can_navigate returned
    \* ---- BrowserSession ----
    page,               \* self.page: "None" | "page"
    history,            \* self.history: the urls of the navigate entries
    fetched,            \* urls handed to page.goto
    b_pc,               \* position of the browser operation in progress
    b_url,              \* url of the navigate in progress
    \* ---- RobotsParser ----
    r_now,              \* time.time() as seen by the robots cache, in seconds
    robot_parsers,      \* RobotsParser.robot_parsers: domain -> RobotFileParser
    cache_timestamps,   \* RobotsParser.cache_timestamps: domain -> timestamp
    r_pc,               \* position of each caller of can_fetch
    r_url,              \* the url argument of the current call
    r_current_time,     \* the local current_time of can_fetch
    r_last,             \* history: how the last finished call was answered
    r_calls,            \* number of can_fetch calls started so far
    r_fetches,          \* history: every robots.txt request sent, in order
    \* ---- KnowledgeSourceManager ----
    k_sources,          \* self.sources: the names of the initialised sources
    k_cache_enabled,    \* config["cache"]["enabled"]
    k_cache,            \* self.cache: the entries of the dict, in insertion order
    k_pc,               \* position of each caller of query
    k_args,             \* the arguments of the call in progress
    k_last,             \* history: how the last finished call was answered
    k_calls,            \* number of query calls started so far
    k_invoked,          \* history: number of calls made to a source
    k_inserted,         \* history: the keys that entered the cache, in order
    k_hits,             \* history: the keys that were answered from the cache
    \* ---- ResearchPlanner ----
    p_pc,               \* position of the create_research_plan coroutine
    p_query,            \* its query argument
    p_reply,            \* the text the language model answered with
    p_analysis,         \* the analysis analyze_query returned
    p_steps,            \* research_plan["steps"] of the plan returned
    p_error,            \* the exception create_research_plan ended with
    p_llm_calls,        \* number of calls made to llm_client.complete
    \* ---- TaskExecutor._execute_web_search ----
    w_pc,               \* position of the _execute_web_search coroutine
    w_max_results,      \* max_results of the step
    search_results,     \* what browser_session.search returned
    w_k,                \* index of the result the loop is visiting (1-based)
    page_contents,      \* the enriched result list built so far
    w_visits,           \* how each visit of the loop ended, in order
    w_return,           \* the dictionary the step returned
    \* ---- ReportGenerator ----
    rep_pc,             \* position of the ReportGenerator call in progress
    rep_results,        \* the research_results argument
    rep_prompt_results, \* the dictionary serialised into the prompt
    rep_summarize_calls, \* calls of llm_client.summarize made by this generate_report
    rep_report,         \* the text generate_report returned
    rep_citations,      \* the text format_citations returned
    \* ---- NavigationManager.normalize_url ----
    n_pc,               \* how many times normalize_url has been applied
    n_url,              \* the input string
    n_once,             \* normalize_url(n_url)
    n_twice,            \* normalize_url(n_once)
    \* ---- two executions of execute_research_plan on one TaskExecutor ----
    o_pc,               \* position of each execute_research_plan coroutine
    o_plan,             \* research_plan of each execution (its query and number of steps)
    o_i,                \* loop index i of each execution (0-based)
    results_by_id,      \* self.research_results: query_id -> the dict stored there (0: no entry)
    records,            \* the dict each execution created at its reset
    \* ---- TaskExecutor running knowledge_source steps on the KnowledgeSourceManager ----
    ks_pc,              \* position of the execute_research_plan coroutine
    ks_plan,            \* research_plan["steps"], knowledge_source steps
    ks_i,               \* loop index i of the for loop (0-based)
    ks_record,          \* self.research_results[query_id]
    ks_args,            \* the arguments of the query call in progress
    ks_asked,           \* history: the sources whose query method was called, in order
    \* ---- visit_page calls sharing the one page of a BrowserSession ----
    vp_pc,              \* position of each visit_page coroutine
    vp_url,             \* the url argument of each call
    vp_shown,           \* the url of the document self.page shows
    vp_got,             \* the locals title and content of each call
    vp_record,          \* the dictionary each call returned
    vp_calls,           \* number of visit_page calls started so far
    \* ---- TaskExecutor.initialize over several execute_research_plan calls ----
    in_pc,              \* position of the execute_research_plan call in progress
    in_calls,           \* number of execute_research_plan calls started so far
    in_sessions_created, \* history: number of BrowserSession objects created
    in_source_inits,    \* history: how often each source was initialised
    in_replaced_open,   \* history: registered sources replaced while their HTTP session was open
    \* ---- WebInterface: start_research, _conduct_research, get_research_result ----
    active_tasks,       \* self.active_tasks: query_id -> task info ("absent": no entry)
    ui_results,         \* self.results: query_id -> the stored report ("absent": no entry)
    ui_pc,              \* position of the _conduct_research task of each query_id
    ui_issued,          \* history: the query_ids start_research returned
    ui_response,        \* history: the last answer of get_research_result for each query_id
    \* ---- Web_searchSource.query: pacing of search requests ----
    ws_now,             \* time.time(), in seconds
    ws_requests_per_minute, \* self.requests_per_minute of the Web_searchSource
    ws_session,         \* self.session is set (initialize has run)
    ws_last_request_time, \* self.last_request_time
    ws_pc,              \* position of each query coroutine
    ws_wake,            \* the time at which the pacing sleep of a coroutine ends
    ws_calls,           \* history: number of query calls begun
    ws_last_issue,      \* history: the time of the latest request (-1: none yet)
    ws_gaps             \* history: the seconds between each request and the one before it

execVars == <<ex_pc, plan, step_i, browser_session, research_results, dispatched, outcomes>>
navVars  == <<now, respect_robots_txt, requests_per_minute, delay_between_requests,
             domain_timestamps, domain_locks, c_pc, c_url,
              c_current_time, c_wake, c_verdict, c_result, c_calls, c_call, recorded>>
gateVars == <<g_pc, g_url, g_respect, g_rules, g_robots_allows, g_robots_calls, g_verdict>>
browVars == <<page, history, fetched, b_pc, b_url>>
robVars == <<r_now, robot_parsers, cache_timestamps, r_pc, r_url, r_current_time, r_last, r_calls, r_fetches>>
regVars == <<k_sources, k_cache_enabled, k_cache, k_pc, k_args, k_last, k_calls, k_invoked, k_inserted, k_hits>>
planVars == <<p_pc, p_query, p_reply, p_analysis, p_steps, p_error, p_llm_calls>>
webVars == <<w_pc, w_max_results, search_results, w_k, page_contents, w_visits, w_return>>
repVars == <<rep_pc, rep_results, rep_prompt_results, rep_summarize_calls, rep_report, rep_citations>>
normVars == <<n_pc, n_url, n_once, n_twice>>
ovVars == <<o_pc, o_plan, o_i, results_by_id, records>>
ksVars == <<ks_pc, ks_plan, ks_i, ks_record, ks_args, ks_asked>>
vpVars == <<vp_pc, vp_url, vp_shown, vp_got, vp_record, vp_calls>>
inVars == <<in_pc, in_calls, in_sessions_created, in_source_inits, in_replaced_open>>
uiVars == <<active_tasks, ui_results, ui_pc, ui_issued, ui_response>>
wsVars == <<ws_now, ws_requests_per_minute, ws_session, ws_last_request_time, ws_pc, ws_wake, ws_calls, ws_last_issue, ws_gaps>>
vars     == <<execVars, navVars, gateVars, browVars, robVars, regVars, planVars, webVars, repVars, normVars, ovVars, ksVars, vpVars, inVars, uiVars, wsVars>>

(***************************************************************************)
(* Generic helpers                                                         *)
(***************************************************************************)
RECURSIVE MinSeq(_)
MinSeq(s) == IF Len(s) = 1 THEN s[1]
             ELSE LET m == MinSeq(Tail(s)) IN IF s[1] < m THEN s[1] ELSE m

RECURSIVE MaxSeq(_)
MaxSeq(s) == IF Len(s) = 1 THEN s[1]
             ELSE LET m == MaxSeq(Tail(s)) IN IF s[1] > m THEN s[1] ELSE m

\* str.startswith on token sequences
StartsWith(s, prefix) ==
    /\ Len(prefix) <= Len(s)
    /\ SubSeq(s, 1, Len(prefix)) = prefix

\* the `in` operator of str on token sequences (contiguous occurrence)
Contains(s, sub) ==
    \E k \in 0..(Len(s) - Len(sub)) : SubSeq(s, k + 1, k + Len(sub)) = sub

(***************************************************************************)
(* TaskExecutor                                                            *)
(***************************************************************************)
MaxSteps == 3

StepTypes == {"web_search", "knowledge_source", "generate_followup", "mystery"}
KnownTypes == {"web_search", "knowledge_source", "generate_followup"}
ErrMsgs == {"timeout", "boom"}

Plans == UNION {[1..n -> StepTypes] : n \in 0..MaxSteps}

NoRecord == [query |-> "None", results |-> <<>>, status |-> "None",
             completed_steps |-> 0, total_steps |-> 0]
NoneResult == [type |-> "None", status |-> "None", error |-> "None"]

\* what a dispatch of a step of type t can do: complete, or raise a message
Outcomes(t) == IF t \in KnownTypes THEN {"ok"} \cup ErrMsgs ELSE {"ok"}

\* _execute_step with the exception swallowed into None
ExecuteStepDropError(t, outcome) ==
    IF t \in KnownTypes
    THEN IF outcome = "ok"
         THEN [type |-> t, status |-> "complete", error |-> "None"]
         ELSE NoneResult
    ELSE [type |-> t, status |-> "error", error |-> "Unknown step type"]

\* _execute_step: dispatch by tag, any exception becomes an error result
ExecuteStep(t, outcome) ==
    IF t \in KnownTypes
    THEN IF outcome = "ok"
         THEN [type |-> t, status |-> "complete", error |-> "None"]
         ELSE [type |-> t, status |-> "error", error |-> outcome]
    ELSE [type |-> t, status |-> "error", error |-> "Unknown step type"]

\* `if step_result:` -- a non-empty dict is truthy, None is not
Truthy(r) == r # NoneResult

\* results.insert(0, step_result)
PrependResult(results, r) == <<r>> \o results

\* results.append(step_result)
AppendResult(results, r) == Append(results, r)

\* completed_steps counted only for steps that did not fail
CompletedOnlyOnSuccess(n, r) == IF r.status = "complete" THEN n + 1 ELSE n

\* completed_steps += 1
CompletedAfterStep(n, r) == n + 1

\* the record is marked complete after every step
StatusCompleteEarly(status, last) == "complete"

\* research_results[query_id]["status"] = "complete", once the loop is over
StatusAfterStep(status, last) == IF last THEN "complete" ELSE status

\* a pause after every step, the last one included
PauseAfterEvery(i, n) == TRUE

\* `if i < len(research_plan["steps"]) - 1:` with the 0-based index i of
\* the step just finished
PauseAfter(i, n) == i < n - 1

\* execute_research_plan is called: runs up to `await self.initialize()`
Start(p) ==
    /\ ex_pc = "idle"
    /\ plan' = p
    /\ ex_pc' = "initializing"
    /\ UNCHANGED <<step_i, browser_session, research_results, dispatched, outcomes>>

\* initialize() returns; the record is created; an empty plan completes at once
InitializeOk ==
    /\ ex_pc = "initializing"
    /\ browser_session' = "ready"
    /\ step_i' = 1
    /\ research_results' =
          [query |-> "q", results |-> <<>>,
           status |-> IF Len(plan) = 0 THEN "complete" ELSE "in_progress",
           completed_steps |-> 0, total_steps |-> Len(plan)]
    /\ ex_pc' = IF Len(plan) = 0 THEN "returned" ELSE "loop"
    /\ UNCHANGED <<plan, dispatched, outcomes>>

\* BrowserSession.initialize() raises inside initialize(); nothing catches it
InitializeFail ==
    /\ ex_pc = "initializing"
    /\ browser_session = "None"
    /\ browser_session' = "created"
    /\ ex_pc' = "raised"
    /\ UNCHANGED <<plan, step_i, research_results, dispatched, outcomes>>

\* the loop hands steps[i] to _execute_step
Dispatch ==
    /\ ex_pc = "loop"
    /\ step_i <= Len(plan)
    /\ dispatched' = Append(dispatched, step_i)
    /\ ex_pc' = "dispatched"
    /\ UNCHANGED <<plan, step_i, browser_session, research_results, outcomes>>

\* _execute_step returns; the result is appended and counted; the loop either
\* goes to sleep before the next step or finishes
StepFinish(outcome) ==
    /\ ex_pc = "dispatched"
    /\ outcome \in Outcomes(plan[step_i])
    /\ LET r == ExecuteStep(plan[step_i], outcome)
           last == ~(step_i - 1 < Len(plan) - 1)
       IN /\ research_results' =
                [research_results EXCEPT
                   !.results = IF Truthy(r) THEN AppendResult(@, r) ELSE @,
                   !.completed_steps = CompletedAfterStep(@, r),
                   !.status = StatusAfterStep(@, last)]
          /\ ex_pc' = IF PauseAfter(step_i - 1, Len(plan)) THEN "sleeping"
                      ELSE IF last THEN "returned" ELSE "loop"
          /\ step_i' = IF PauseAfter(step_i - 1, Len(plan)) \/ last
                       THEN step_i ELSE step_i + 1
    /\ outcomes' = Append(outcomes, outcome)
    /\ UNCHANGED <<plan, browser_session, dispatched>>

\* the inter-step asyncio.sleep ends; the for loop moves to the next step
SleepDone ==
    /\ ex_pc = "sleeping"
    /\ step_i' = step_i + 1
    /\ ex_pc' = "loop"
    /\ UNCHANGED <<plan, browser_session, research_results, dispatched, outcomes>>

(***************************************************************************)
(* URLs, as urllib.parse.urlparse splits them.  Strings that the code      *)
(* tests with startswith / in are sequences of tokens.                     *)
(***************************************************************************)
WikiHost == <<"en.", "wikipedia.org">>

UrlExample     == [scheme |-> "https", netloc |-> <<"example.com">>, path |-> <<"/page">>]
UrlExamplePriv == [scheme |-> "https", netloc |-> <<"example.com">>, path |-> <<"/private/", "x">>]
UrlWikiPage    == [scheme |-> "https", netloc |-> WikiHost, path |-> <<"/wiki/", "Quantum">>]
UrlWikiSpecial == [scheme |-> "https", netloc |-> WikiHost, path |-> <<"/wiki/", "Special:", "Random">>]
UrlWikiIndex   == [scheme |-> "https", netloc |-> WikiHost, path |-> <<"/w/", "index.php">>]
UrlMirror      == [scheme |-> "https", netloc |-> <<"wikipedia.org", ".mirror.net">>, path |-> <<"/about">>]
UrlNoScheme    == [scheme |-> "", netloc |-> <<>>, path |-> <<"example.com", "/page">>]
UrlNoHost      == [scheme |-> "https", netloc |-> <<>>, path |-> <<"/page">>]

URLs == {UrlExample, UrlExamplePriv, UrlWikiPage, UrlWikiSpecial, UrlWikiIndex,
         UrlMirror, UrlNoScheme, UrlNoHost}

NoUrl == [scheme |-> "None", netloc |-> <<>>, path |-> <<>>]

\* urlparse(url).netloc
Domain(u) == u.netloc

\* NavigationManager.__init__: self.site_rules
DefaultSiteRules ==
    << [domain |-> <<"wikipedia.org">>,
        allowed_paths |-> << <<"/wiki/">> >>,
        disallowed_paths |-> << <<"/wiki/", "Special:">>, <<"/wiki/", "Talk:">>,
                                <<"/wiki/", "User:">> >>] >>

\* site_rules "might be expanded": a rule without allowed_paths, two rules
ExpandedSiteRules ==
    DefaultSiteRules \o
    << [domain |-> <<"example.com">>, allowed_paths |-> << >>,
        disallowed_paths |-> << <<"/private/">> >>] >>

SiteRuleConfigs == {DefaultSiteRules, ExpandedSiteRules, << >>}

\* `not parsed_url.scheme or not parsed_url.netloc` is false
UrlValid(u) == u.scheme # "" /\ u.netloc # << >>

\* for disallowed in rules["disallowed_paths"]: if path.startswith(disallowed)
RECURSIVE AnyStartsWith(_, _)
AnyStartsWith(path, prefixes) ==
    IF prefixes = << >> THEN FALSE
    ELSE IF StartsWith(path, Head(prefixes)) THEN TRUE
    ELSE AnyStartsWith(path, Tail(prefixes))

\* a rule applies to hosts that END with its domain key
RuleAppliesSuffix(rule, u) ==
    /\ Len(rule.domain) <= Len(u.netloc)
    /\ SubSeq(u.netloc, Len(u.netloc) - Len(rule.domain) + 1, Len(u.netloc)) = rule.domain

\* `if site_domain in domain`
RuleApplies(rule, u) == Contains(u.netloc, rule.domain)

\* body of the site_rules loop: does this rule make can_navigate return False
RuleRejects(rule, u) ==
    /\ RuleApplies(rule, u)
    /\ \/ AnyStartsWith(u.path, rule.disallowed_paths)
       \/ /\ rule.allowed_paths # << >>
          /\ ~AnyStartsWith(u.path, rule.allowed_paths)

\* the site_rules loop of can_navigate, with its early returns
RECURSIVE SiteRulesAllow(_, _)
SiteRulesAllow(rules, u) ==
    IF rules = << >> THEN TRUE
    ELSE IF RuleRejects(Head(rules), u) THEN FALSE
    ELSE SiteRulesAllow(Tail(rules), u)

(***************************************************************************)
(* RateLimiter.acquire and NavigationManager.prepare_navigation            *)
(***************************************************************************)
Window == 60
DelayBetweenRequests == 1
RequestsPerMinute == 1
TickSeconds == 10
MaxTime == 100
NumCallers == 2
MaxCalls == 3

Callers == 1..NumCallers

\* the values of delay_between_requests a configuration may carry: the
\* default, and one longer than the window over which timestamps are kept
DelayConfigs == {DelayBetweenRequests, Window + TickSeconds}

\* the clock ticks at which callers arrive (a tick is TickSeconds long)
ArrivalTicks == {0, 5, 6}
NavURLs == {UrlExample, UrlWikiPage, UrlWikiSpecial}

FreeLock == [holder |-> 0, waiters |-> << >>]

\* one asyncio.Lock for all domains
LockKeyShared(d) == << >>

\* self.domain_locks[domain]: the lock a caller for domain d takes
LockKey(d) == d

\* the timestamps of a domain, empty when the domain has no entry
Stamps(ts, d) == IF d \in DOMAIN ts THEN ts[d] ELSE << >>

\* the list comprehension that keeps timestamps less than one minute old
Pruned(tsd, ct) == SelectSeq(tsd, LAMBDA t : ct - t < Window)

\* wait_time of the requests-per-minute check (0: no sleep)
RpmWait(tsd, ct) ==
    IF Len(tsd) >= requests_per_minute
    THEN LET w == Window - (ct - MinSeq(tsd)) IN IF w > 0 THEN w ELSE 0
    ELSE 0

\* wait_time of the delay-between-requests check (0: no sleep)
DelayWait(tsd, ct) ==
    IF tsd # << >> /\ ct - MaxSeq(tsd) < delay_between_requests
    THEN LET w == delay_between_requests - (ct - MaxSeq(tsd)) IN IF w > 0 THEN w ELSE 0
    ELSE 0

\* where acquire stops next once the requests-per-minute check is over
AfterRpm(tsd, ct) ==
    IF DelayWait(tsd, ct) > 0
    THEN [pc |-> "sleep_delay", wait |-> DelayWait(tsd, ct)]
    ELSE [pc |-> "record", wait |-> 0]

\* where acquire stops next once it holds the lock
AfterLock(tsd, ct) ==
    IF Len(tsd) >= requests_per_minute /\ tsd = << >>
    THEN [pc |-> "raise", wait |-> 0]
    ELSE IF RpmWait(tsd, ct) > 0
    THEN [pc |-> "sleep_rpm", wait |-> RpmWait(tsd, ct)]
    ELSE AfterRpm(tsd, ct)

\* prepare_navigation calling acquire whatever can_navigate said
ShouldAcquireAlways(verdict) == TRUE

\* `if not can_navigate: return False` -- acquire is reached only when allowed
ShouldAcquire(verdict) == verdict

\* acquire from the point where the caller holds the lock of d, up to its next
\* suspension or to its end: either it goes to sleep, or it records the
\* request, releases the lock and prepare_navigation returns True, or min()
\* of an empty list raises ValueError, which releases the lock on its way out
Proceed(c, u, ct, nx, ts, locks) ==
    IF nx.pc = "raise"
    THEN /\ domain_timestamps' = ts
         /\ recorded' = recorded
         /\ domain_locks' = [locks EXCEPT ![LockKey(Domain(u))].holder = 0]
         /\ c_pc' = [c_pc EXCEPT ![c] = "raised"]
         /\ c_result' = [c_result EXCEPT ![c] = "ValueError"]
         /\ c_wake' = [c_wake EXCEPT ![c] = 0]
         /\ c_current_time' = [c_current_time EXCEPT ![c] = 0]
    ELSE IF nx.pc = "record"
    THEN /\ domain_timestamps' = [ts EXCEPT ![Domain(u)] = Append(@, now)]
         /\ recorded' = Append(recorded, [url |-> u, time |-> now, call |-> c_call'[c]])
         /\ domain_locks' = [locks EXCEPT ![LockKey(Domain(u))].holder = 0]
         /\ c_pc' = [c_pc EXCEPT ![c] = "returned"]
         /\ c_result' = [c_result EXCEPT ![c] = "True"]
         /\ c_wake' = [c_wake EXCEPT ![c] = 0]
         /\ c_current_time' = [c_current_time EXCEPT ![c] = 0]
    ELSE /\ domain_timestamps' = ts
         /\ recorded' = recorded
         /\ domain_locks' = locks
         /\ c_pc' = [c_pc EXCEPT ![c] = nx.pc]
         /\ c_wake' = [c_wake EXCEPT ![c] = now + nx.wait]
         /\ c_current_time' = [c_current_time EXCEPT ![c] = ct]
         /\ c_result' = [c_result EXCEPT ![c] = "None"]

\* acquire from its first line to the first suspension: the lock and the list
\* are created, the list is pruned, then the caller takes the lock or queues
EnterAcquire(c, u) ==
    LET d == Domain(u)
        k == LockKey(d)
        locks1 == IF k \in DOMAIN domain_locks THEN domain_locks
                  ELSE (k :> FreeLock) @@ domain_locks
        ts0 == IF d \in DOMAIN domain_timestamps THEN domain_timestamps
               ELSE (d :> << >>) @@ domain_timestamps
        ts1 == [ts0 EXCEPT ![d] = Pruned(@, now)]
    IN IF locks1[k].holder = 0 /\ locks1[k].waiters = << >>
          THEN Proceed(c, u, now, AfterLock(ts1[d], now), ts1,
                       [locks1 EXCEPT ![k].holder = c])
          ELSE /\ domain_locks' = [locks1 EXCEPT ![k].waiters = Append(@, c)]
               /\ domain_timestamps' = ts1
               /\ c_current_time' = [c_current_time EXCEPT ![c] = now]
               /\ c_pc' = [c_pc EXCEPT ![c] = "lockwait"]
               /\ c_result' = [c_result EXCEPT ![c] = "None"]
               /\ UNCHANGED <<recorded, c_wake>>

\* prepare_navigation once can_navigate has returned `verdict`
AfterCanNavigate(c, u, verdict) ==
    /\ c_verdict' = [c_verdict EXCEPT ![c] = IF verdict THEN "True" ELSE "False"]
    /\ IF ShouldAcquire(verdict)
       THEN EnterAcquire(c, u)
       ELSE /\ c_pc' = [c_pc EXCEPT ![c] = "returned"]
            /\ c_result' = [c_result EXCEPT ![c] = "False"]
            /\ UNCHANGED <<domain_timestamps, domain_locks, recorded, c_wake, c_current_time>>

\* prepare_navigation(u) is called; runs to the first suspension
PrepareNavigation(c, u) ==
    /\ c_pc[c] \in {"idle", "returned"}
    /\ c_calls < MaxCalls
    /\ (now \div TickSeconds) \in ArrivalTicks
    /\ c_calls' = c_calls + 1
    /\ c_call' = [c_call EXCEPT ![c] = c_calls + 1]
    /\ c_url' = [c_url EXCEPT ![c] = u]
    /\ IF ~UrlValid(u)
       THEN AfterCanNavigate(c, u, FALSE)
       ELSE IF respect_robots_txt
       THEN /\ c_pc' = [c_pc EXCEPT ![c] = "robots"]
            /\ c_verdict' = [c_verdict EXCEPT ![c] = "None"]
            /\ c_result' = [c_result EXCEPT ![c] = "None"]
            /\ UNCHANGED <<domain_timestamps, domain_locks, recorded, c_wake, c_current_time>>
       ELSE AfterCanNavigate(c, u, SiteRulesAllow(DefaultSiteRules, u))
    /\ UNCHANGED <<now, respect_robots_txt, requests_per_minute, delay_between_requests>>

\* robots_parser.can_fetch answers; can_navigate finishes
RobotsAnswer(c, allows) ==
    /\ c_pc[c] = "robots"
    /\ UNCHANGED <<now, respect_robots_txt, requests_per_minute, delay_between_requests, c_url, c_calls, c_call>>
    /\ AfterCanNavigate(c, c_url[c], allows /\ SiteRulesAllow(DefaultSiteRules, c_url[c]))

\* the lock is handed to the first waiter
LockGranted(c) ==
    LET d == Domain(c_url[c])
        k == LockKey(d)
    IN /\ c_pc[c] = "lockwait"
       /\ domain_locks[k].holder = 0
       /\ domain_locks[k].waiters # << >>
       /\ Head(domain_locks[k].waiters) = c
       /\ UNCHANGED <<now, respect_robots_txt, requests_per_minute, delay_between_requests, c_url, c_calls, c_call, c_verdict>>
       /\ Proceed(c, c_url[c], c_current_time[c],
                  AfterLock(domain_timestamps[d], c_current_time[c]),
                  domain_timestamps,
                  [domain_locks EXCEPT ![k] = [holder |-> c, waiters |-> Tail(@.waiters)]])

\* the sleep of the requests-per-minute check ends
WakeRpm(c) ==
    LET d == Domain(c_url[c]) IN
    /\ c_pc[c] = "sleep_rpm"
    /\ now >= c_wake[c]
    /\ UNCHANGED <<now, respect_robots_txt, requests_per_minute, delay_between_requests, c_url, c_calls, c_call, c_verdict>>
    /\ Proceed(c, c_url[c], c_current_time[c],
               AfterRpm(domain_timestamps[d], c_current_time[c]),
               domain_timestamps, domain_locks)

\* the sleep of the delay check ends; the request is recorded
WakeDelay(c) ==
    LET d == Domain(c_url[c]) IN
    /\ c_pc[c] = "sleep_delay"
    /\ now >= c_wake[c]
    /\ UNCHANGED <<now, respect_robots_txt, requests_per_minute, delay_between_requests, c_url, c_calls, c_call, c_verdict>>
    /\ Proceed(c, c_url[c], c_current_time[c], [pc |-> "record", wait |-> 0],
               domain_timestamps, domain_locks)

\* a caller whose sleep is over or whose lock is free runs before the clock
\* ticks; so does one waiting for robots.txt (fetched with timeout=10)
Runnable(c) ==
    \/ c_pc[c] = "robots"
    \/ c_pc[c] \in {"sleep_rpm", "sleep_delay"} /\ now >= c_wake[c]
    \/ /\ c_pc[c] = "lockwait"
       /\ LET k == LockKey(Domain(c_url[c]))
          IN domain_locks[k].holder = 0 /\ Head(domain_locks[k].waiters) = c

Tick ==
    /\ now + TickSeconds <= MaxTime
    /\ \A c \in Callers : ~Runnable(c)
    /\ now' = now + TickSeconds
    /\ UNCHANGED <<respect_robots_txt, requests_per_minute, delay_between_requests, domain_timestamps, domain_locks, c_pc, c_url,
                   c_current_time, c_wake, c_verdict, c_result, c_calls, c_call, recorded>>

\* the clock of the event loop: time also passes beyond MaxTime for as long
\* as a caller is asleep inside acquire
TimePasses ==
    /\ \/ now + TickSeconds <= MaxTime
       \/ \E c \in Callers : c_pc[c] \in {"sleep_rpm", "sleep_delay"}
    /\ \A c \in Callers : ~Runnable(c)
    /\ now' = now + TickSeconds
    /\ UNCHANGED <<respect_robots_txt, requests_per_minute, delay_between_requests, domain_timestamps, domain_locks, c_pc, c_url,
                   c_current_time, c_wake, c_verdict, c_result, c_calls, c_call, recorded>>

(***************************************************************************)
(* NavigationManager.can_navigate as a function of its inputs              *)
(***************************************************************************)
BoolStr(b) == IF b THEN "True" ELSE "False"

\* can_navigate(url) is called: the validity check, then either the await on
\* robots_parser.can_fetch or straight on to the site rules
CanNavigateCall ==
    /\ g_pc = "idle"
    /\ IF ~UrlValid(g_url)
       THEN /\ g_verdict' = "False"
            /\ g_pc' = "returned"
            /\ UNCHANGED g_robots_calls
       ELSE IF g_respect
       THEN /\ g_pc' = "robots"
            /\ g_robots_calls' = g_robots_calls + 1
            /\ UNCHANGED g_verdict
       ELSE /\ g_verdict' = BoolStr(SiteRulesAllow(g_rules, g_url))
            /\ g_pc' = "returned"
            /\ UNCHANGED g_robots_calls
    /\ UNCHANGED <<g_url, g_respect, g_rules, g_robots_allows>>

\* robots_parser.can_fetch has answered: reject, or go on to the site rules
CanNavigateRobots ==
    /\ g_pc = "robots"
    /\ g_verdict' = IF ~g_robots_allows THEN "False"
                    ELSE BoolStr(SiteRulesAllow(g_rules, g_url))
    /\ g_pc' = "returned"
    /\ UNCHANGED <<g_url, g_respect, g_rules, g_robots_allows, g_robots_calls>>

(***************************************************************************)
(* BrowserSession: navigate, and search / visit_page which go through it   *)
(***************************************************************************)
MaxHistory == 3

Engines == {"google", "bing", "duckduckgo", "yahoo"}

\* search_urls[search_engine], with the fallback to Google
SearchUrl(engine) ==
    IF engine = "bing"
    THEN [scheme |-> "https", netloc |-> <<"www.bing.com">>, path |-> <<"/search">>]
    ELSE IF engine = "duckduckgo"
    THEN [scheme |-> "https", netloc |-> <<"duckduckgo.com">>, path |-> <<"/">>]
    ELSE [scheme |-> "https", netloc |-> <<"www.google.com">>, path |-> <<"/search">>]

\* navigate from the history entry to the await on page.goto(url)
GotoStart(u) ==
    /\ history' = Append(history, u)
    /\ fetched' = fetched \cup {u}
    /\ b_pc' = "goto"
    /\ b_url' = u

\* navigate(url) is entered: `if not self.page: await self.initialize()`
Navigate(u) ==
    /\ b_pc = "idle"
    /\ Len(history) < MaxHistory
    /\ IF page = "None"
       THEN /\ b_pc' = "initializing"
            /\ b_url' = u
            /\ UNCHANGED <<page, history, fetched>>
       ELSE /\ GotoStart(u)
            /\ UNCHANGED page

\* visit_page(url) starts with navigate(url)
VisitPage(u) == Navigate(u)

\* search(query, engine) starts with navigate(search_urls[engine])
Search(engine) == Navigate(SearchUrl(engine))

\* BrowserSession.initialize() finishes inside navigate
BrowserInitialized ==
    /\ b_pc = "initializing"
    /\ page' = "page"
    /\ GotoStart(b_url)

\* BrowserSession.initialize() raises; navigate propagates it
BrowserInitFailed ==
    /\ b_pc = "initializing"
    /\ b_pc' = "idle"
    /\ UNCHANGED <<page, history, fetched, b_url>>

\* page.goto returns or raises; navigate returns its verdict
GotoDone ==
    /\ b_pc = "goto"
    /\ b_pc' = "idle"
    /\ UNCHANGED <<page, history, fetched, b_url>>

(***************************************************************************)
(* RobotsParser.can_fetch: the per-domain robots.txt cache.  The coroutine *)
(* is cut at its one suspension, the robots.txt request.                   *)
(***************************************************************************)
CacheTtl == 3600
RobotsTickSeconds == 1200
MaxRobotsTime == 4800
MaxRobotsCalls == 3

\* tasks that may be inside can_fetch at the same time
RobotsCallers == {1, 2}

RobotsURLs == {UrlExample, UrlExamplePriv, UrlWikiPage, UrlNoHost}

NoAnswer == [url |-> NoUrl, how |-> "None", ret |-> "None"]

\* robots.txt bodies, as the path prefixes they disallow for every agent
RobotsBodies == { {}, { <<"/private/">> } }

\* what the robots.txt request can do: answer 200 with a body, answer with
\* another status, or raise (connection error, timeout)
FetchOutcomes ==
    {[status |-> "200", body |-> b] : b \in RobotsBodies}
    \cup {[status |-> "404", body |-> {}], [status |-> "error", body |-> {}]}

\* urllib.robotparser.RobotFileParser(): a parser that has read nothing
NewParser ==
    [disallow_all |-> FALSE, allow_all |-> FALSE, last_checked |-> FALSE,
     disallowed |-> {}]

\* rp.parse(lines): records the rules and marks the parser as checked
ParseRobots(rp, body) == [rp EXCEPT !.last_checked = TRUE, !.disallowed = body]

\* rp.disallow_all = False
SetDisallowAllFalse(rp) == [rp EXCEPT !.disallow_all = FALSE]

\* RobotFileParser.can_fetch(user_agent, url)
ParserCanFetch(rp, u) ==
    IF rp.disallow_all THEN FALSE
    ELSE IF rp.allow_all THEN TRUE
    ELSE IF ~rp.last_checked THEN FALSE
    ELSE ~(\E p \in rp.disallowed : StartsWith(u.path, p))

\* the parser can_fetch builds from the outcome of the request
ParserAfterFetch(outcome) ==
    IF outcome.status = "200" THEN ParseRobots(NewParser, outcome.body)
    ELSE SetDisallowAllFalse(NewParser)

\* a cache entry that is still used when it is exactly cache_ttl old
CacheValidAtTtl(d, t) ==
    /\ d \in DOMAIN robot_parsers
    /\ t - cache_timestamps[d] <= CacheTtl

\* `domain in self.robot_parsers and current_time - timestamp < self.cache_ttl`
CacheValid(d, t) ==
    /\ d \in DOMAIN robot_parsers
    /\ t - cache_timestamps[d] < CacheTtl

\* can_fetch(url, user_agent) is called: an url without host is allowed at
\* once, a valid cache entry answers at once, otherwise the request is sent
CanFetchCall(c, u) ==
    /\ r_pc[c] = "idle"
    /\ r_calls < MaxRobotsCalls
    /\ r_calls' = r_calls + 1
    /\ IF u.netloc = << >>
       THEN /\ r_last' = [url |-> u, how |-> "invalid", ret |-> "True"]
            /\ UNCHANGED <<r_pc, r_url, r_current_time, r_fetches>>
       ELSE IF CacheValid(Domain(u), r_now)
       THEN /\ r_last' = [url |-> u, how |-> "cached",
                        ret |-> BoolStr(ParserCanFetch(robot_parsers[Domain(u)], u))]
            /\ UNCHANGED <<r_pc, r_url, r_current_time, r_fetches>>
       ELSE /\ r_pc' = [r_pc EXCEPT ![c] = "fetching"]
            /\ r_url' = [r_url EXCEPT ![c] = u]
            /\ r_current_time' = [r_current_time EXCEPT ![c] = r_now]
            /\ r_fetches' = Append(r_fetches, [domain |-> Domain(u), at |-> r_now])
            /\ UNCHANGED r_last
    /\ UNCHANGED <<r_now, robot_parsers, cache_timestamps>>

\* the request ends: the parser is built, cached under the time the call
\* started, and asked about the url
FetchDone(c, outcome) ==
    /\ r_pc[c] = "fetching"
    /\ LET rp == ParserAfterFetch(outcome)
           d == Domain(r_url[c])
       IN /\ robot_parsers' = (d :> rp) @@ robot_parsers
          /\ cache_timestamps' = (d :> r_current_time[c]) @@ cache_timestamps
          /\ r_last' = [url |-> r_url[c], how |-> outcome.status,
                      ret |-> BoolStr(ParserCanFetch(rp, r_url[c]))]
    /\ r_pc' = [r_pc EXCEPT ![c] = "idle"]
    /\ r_url' = [r_url EXCEPT ![c] = NoUrl]
    /\ r_current_time' = [r_current_time EXCEPT ![c] = 0]
    /\ UNCHANGED <<r_now, r_calls, r_fetches>>

\* time passes; a request in flight ends first (timeout=10 is far below a tick)
RobotsTick ==
    /\ \A c \in RobotsCallers : r_pc[c] = "idle"
    /\ r_now + RobotsTickSeconds <= MaxRobotsTime
    /\ r_now' = r_now + RobotsTickSeconds
    /\ UNCHANGED <<robot_parsers, cache_timestamps, r_pc, r_url, r_current_time,
                   r_last, r_calls, r_fetches>>

(***************************************************************************)
(* KnowledgeSourceManager.query and its cache.  The coroutine is cut at    *)
(* its one suspension, the call to the source.  Strings that make up the   *)
(* cache key are sequences of characters.                                  *)
(***************************************************************************)
MaxCacheSize == 2
MaxQueries == 4

\* tasks that may be inside query at the same time
Queriers == {1, 2}

\* KnowledgeSourceManager.__init__: the default of config["sources"]
EnabledSources == {"web_search", "wikipedia", "arxiv"}

\* what initialize() can leave in self.sources: a source whose import or
\* initialize raised is enabled but not registered
InitialisedSets == { {"wikipedia", "arxiv"}, {"wikipedia"} }

QueryA  == <<"a">>
QueryA1 == <<"a", ":", "1">>

\* the (source, query, max_results) triples query is called with
QueryArgs ==
    { [source |-> "wikipedia", query |-> QueryA,  max_results |-> 1],
      [source |-> "wikipedia", query |-> QueryA,  max_results |-> 2],
      [source |-> "wikipedia", query |-> QueryA1, max_results |-> 1],
      [source |-> "arxiv",     query |-> QueryA,  max_results |-> 1],
      [source |-> "scholar",   query |-> QueryA,  max_results |-> 1] }

NoArgs == [source |-> "None", query |-> << >>, max_results |-> 0]
NoReply == [args |-> NoArgs, how |-> "None", ret |-> << >>]

\* what a source can answer to a query: no result, or a result about what
\* it was asked
SourceAnswers(a) == { << >>, << [about |-> a, text |-> "r1"] >> }

DigitChars == <<"0", "1", "2", "3", "4", "5", "6", "7", "8", "9">>

\* str(n) of a natural number
RECURSIVE IntStr(_)
IntStr(n) == IF n < 10 THEN <<DigitChars[n + 1]>>
             ELSE IntStr(n \div 10) \o <<DigitChars[(n % 10) + 1]>>

\* a key that leaves max_results out
CacheKeyNoMaxResults(a) == <<a.source>> \o <<":">> \o a.query

\* cache_key = f"{source}:{query}:{max_results}"
CacheKey(a) == <<a.source>> \o <<":">> \o a.query \o <<":">> \o IntStr(a.max_results)

\* list(self.cache.keys())
CacheKeys(cache) == [i \in 1..Len(cache) |-> cache[i].key]

\* `cache_key in self.cache`
InCache(cache, key) == \E i \in 1..Len(cache) : cache[i].key = key

\* self.cache[cache_key]
CacheGet(cache, key) == cache[CHOOSE i \in 1..Len(cache) : cache[i].key = key]

\* self.cache[cache_key] = results: a key already present keeps its place
CachePut(cache, key, a, results) ==
    LET e == [key |-> key, args |-> a, value |-> results]
    IN IF InCache(cache, key)
       THEN [i \in 1..Len(cache) |-> IF cache[i].key = key THEN e ELSE cache[i]]
       ELSE Append(cache, e)

\* pruning that removes the entries inserted last
PruneCacheNewest(cache) ==
    IF Len(cache) > MaxCacheSize
    THEN SubSeq(cache, 1, MaxCacheSize)
    ELSE cache

\* _prune_cache: the first len - max_size keys of the dict are deleted
PruneCache(cache) ==
    IF Len(cache) > MaxCacheSize
    THEN SubSeq(cache, Len(cache) - MaxCacheSize + 1, Len(cache))
    ELSE cache

\* a source is turned away only when it is not enabled
RejectedOnlyDisabled(source, sources) ==
    IF source \notin EnabledSources THEN "not_enabled" ELSE "no"

\* the two early returns of query
Rejected(source, sources) ==
    IF source \notin EnabledSources THEN "not_enabled"
    ELSE IF source \notin sources THEN "not_initialized"
    ELSE "no"

\* the failure is stored as an empty result
CacheOnRaiseStored(cache, key, a) == CachePut(cache, key, a, << >>)

\* `except Exception: return []`: the cache is not touched
CacheOnRaise(cache, key, a) == cache

\* query(source, query, max_results) is called: the two early returns, then
\* the cache lookup, otherwise the source is called
QueryCall(q, a) ==
    /\ k_pc[q] = "idle"
    /\ k_calls < MaxQueries
    /\ k_calls' = k_calls + 1
    /\ IF Rejected(a.source, k_sources) # "no"
       THEN /\ k_last' = [args |-> a, how |-> Rejected(a.source, k_sources), ret |-> << >>]
            /\ UNCHANGED <<k_pc, k_args, k_invoked, k_hits>>
       ELSE IF k_cache_enabled /\ InCache(k_cache, CacheKey(a))
       THEN /\ k_last' = [args |-> a, how |-> "hit",
                          ret |-> CacheGet(k_cache, CacheKey(a)).value]
            /\ k_hits' = k_hits \cup {CacheKey(a)}
            /\ UNCHANGED <<k_pc, k_args, k_invoked>>
       ELSE /\ k_pc' = [k_pc EXCEPT ![q] = "querying"]
            /\ k_args' = [k_args EXCEPT ![q] = a]
            /\ k_invoked' = k_invoked + 1
            /\ UNCHANGED <<k_last, k_hits>>
    /\ UNCHANGED <<k_sources, k_cache_enabled, k_cache, k_inserted>>

\* the source answers: the results are stored, the cache is pruned, the
\* results are returned
QueryAnswered(q, results) ==
    /\ k_pc[q] = "querying"
    /\ results \in SourceAnswers(k_args[q])
    /\ LET key == CacheKey(k_args[q])
       IN IF k_cache_enabled
          THEN /\ k_cache' = PruneCache(CachePut(k_cache, key, k_args[q], results))
               /\ k_inserted' = IF InCache(k_cache, key) THEN k_inserted
                                ELSE Append(k_inserted, key)
          ELSE UNCHANGED <<k_cache, k_inserted>>
    /\ k_last' = [args |-> k_args[q], how |-> "source", ret |-> results]
    /\ k_pc' = [k_pc EXCEPT ![q] = "idle"]
    /\ k_args' = [k_args EXCEPT ![q] = NoArgs]
    /\ UNCHANGED <<k_sources, k_cache_enabled, k_calls, k_invoked, k_hits>>

\* the source raises: query returns [] from its except branch
QueryRaised(q) ==
    /\ k_pc[q] = "querying"
    /\ k_cache' = CacheOnRaise(k_cache, CacheKey(k_args[q]), k_args[q])
    /\ k_last' = [args |-> k_args[q], how |-> "raised", ret |-> << >>]
    /\ k_pc' = [k_pc EXCEPT ![q] = "idle"]
    /\ k_args' = [k_args EXCEPT ![q] = NoArgs]
    /\ UNCHANGED <<k_sources, k_cache_enabled, k_calls, k_invoked, k_inserted, k_hits>>

(***************************************************************************)
(* ResearchPlanner.analyze_query and create_research_plan.  A JSON value   *)
(* is a string (a sequence of characters) or a list; iterating a string    *)
(* yields its characters, as in Python.                                    *)
(***************************************************************************)
MaxPriority == 2

Str(chars) == [kind |-> "str", val |-> chars]
List(items) == [kind |-> "list", val |-> items]

NoText == Str(<< >>)
UserQuery == Str(<<"q", "c">>)
TermA == Str(<<"a">>)
TermB == Str(<<"b">>)
TermAB == Str(<<"a", "b">>)
WikiTerm == Str(<<"w">>)
ArxivTerm == Str(<<"x">>)

\* the source names a reply may list; "scholar" is one the planner does not know
SourceNames == {"web_search", "wikipedia", "arxiv", "scholar"}

PriorityOrders == UNION {[1..n -> SourceNames] : n \in 0..MaxPriority}

\* values of search_terms["web_search"]: a list of terms or a single string
WebTermValues == {List(<<TermA>>), List(<<TermA, TermB>>), TermAB}

\* search_terms mappings: any subset of the known sources has an entry
SearchTermSets ==
    { [s \in D |-> IF s = "web_search" THEN w
                   ELSE IF s = "wikipedia" THEN WikiTerm ELSE ArxivTerm] :
        D \in SUBSET {"web_search", "wikipedia", "arxiv"}, w \in WebTermValues }

\* a JSON object with the fields the planner reads; each may be missing
JsonObject(po, st, rf) ==
    [k \in (IF po = {} THEN {} ELSE {"priority_order"})
           \cup (IF st = {} THEN {} ELSE {"search_terms"})
           \cup (IF rf = {} THEN {} ELSE {"requires_followup"}) |->
        IF k = "priority_order" THEN CHOOSE x \in po : TRUE
        ELSE IF k = "search_terms" THEN CHOOSE x \in st : TRUE
        ELSE CHOOSE x \in rf : TRUE]

JsonObjects ==
    { JsonObject(po, st, rf) :
        po \in {{}} \cup {{x} : x \in PriorityOrders},
        st \in {{}} \cup {{x} : x \in SearchTermSets},
        rf \in {{}, {TRUE}, {FALSE}} }

\* what llm_client.complete can return: text that is not JSON (error
\* messages included), JSON that is not an object, or a JSON object
LlmReplies ==
    {[shape |-> "text", value |-> [type |-> "None", fields |-> << >>]]}
    \cup {[shape |-> "json", value |-> [type |-> t, fields |-> << >>]] : t \in {"list", "str"}}
    \cup {[shape |-> "json", value |-> [type |-> "dict", fields |-> o]] : o \in JsonObjects}

NoLlmReply == [shape |-> "None", value |-> [type |-> "None", fields |-> << >>]]
NoAnalysis == [type |-> "None", fields |-> << >>]

\* a fallback that asks for follow-up questions
FallbackAnalysisWithFollowup(query) ==
    [type |-> "dict",
     fields |-> [main_question |-> query,
                 sub_questions |-> <<query>>,
                 search_terms |-> [s \in {"web_search"} |-> List(<<query>>)],
                 priority_order |-> <<"web_search">>,
                 requires_followup |-> TRUE,
                 domain_knowledge |-> << >>]]

\* analyze_query: the dict returned on json.JSONDecodeError
FallbackAnalysis(query) ==
    [type |-> "dict",
     fields |-> [main_question |-> query,
                 sub_questions |-> <<query>>,
                 search_terms |-> [s \in {"web_search"} |-> List(<<query>>)],
                 priority_order |-> <<"web_search">>,
                 requires_followup |-> FALSE,
                 domain_knowledge |-> << >>]]

\* analyze_query: json.loads(response), the fallback on JSONDecodeError only
AnalyzeQuery(query, reply) ==
    IF reply.shape = "text" THEN FallbackAnalysis(query) ELSE reply.value

\* iteration from the last element to the first
IterateReversed(v) ==
    IF v.kind = "list" THEN [i \in 1..Len(v.val) |-> v.val[Len(v.val) + 1 - i]]
    ELSE [i \in 1..Len(v.val) |-> Str(<<v.val[Len(v.val) + 1 - i]>>)]

\* `for term in value`: the items of a list, the characters of a string
Iterate(v) ==
    IF v.kind = "list" THEN v.val
    ELSE [i \in 1..Len(v.val) |-> Str(<<v.val[i]>>)]

\* a web_search step asking for ten results
WebSearchStepTen(term) ==
    [type |-> "web_search", search_engine |-> "google", query |-> term,
     max_results |-> 10, status |-> "pending"]

WebSearchStep(term) ==
    [type |-> "web_search", search_engine |-> "google", query |-> term,
     max_results |-> 5, status |-> "pending"]

KnowledgeStep(source, term, n) ==
    [type |-> "knowledge_source", source |-> source, query |-> term,
     max_results |-> n, status |-> "pending"]

FollowupStep ==
    [type |-> "generate_followup", based_on |-> "initial_results", status |-> "pending"]

\* the body of the loop over priority_order: the steps one source adds, or
\* the KeyError of analysis["search_terms"]
StepsForSource(source, fields) ==
    IF source \notin {"web_search", "arxiv", "wikipedia"}
    THEN [error |-> "None", steps |-> << >>]
    ELSE IF "search_terms" \notin DOMAIN fields
    THEN [error |-> "KeyError", steps |-> << >>]
    ELSE LET st == fields["search_terms"]
         IN IF source = "web_search"
            THEN LET terms == IF "web_search" \in DOMAIN st
                              THEN Iterate(st["web_search"]) ELSE << >>
                 IN [error |-> "None",
                     steps |-> [i \in 1..Len(terms) |-> WebSearchStep(terms[i])]]
            ELSE IF source \in DOMAIN st
            THEN [error |-> "None",
                  steps |-> <<KnowledgeStep(source, st[source],
                                            IF source = "arxiv" THEN 3 ELSE 2)>>]
            ELSE [error |-> "None", steps |-> << >>]

\* `for source in analysis["priority_order"]`, ended by the first exception
RECURSIVE WalkPriority(_, _, _)
WalkPriority(order, fields, acc) ==
    IF order = << >> THEN [error |-> "None", steps |-> acc]
    ELSE LET r == StepsForSource(Head(order), fields)
         IN IF r.error # "None" THEN [error |-> r.error, steps |-> acc]
            ELSE WalkPriority(Tail(order), fields, acc \o r.steps)

\* a missing requires_followup counts as true
WantsFollowupByDefault(fields) ==
    IF "requires_followup" \in DOMAIN fields THEN fields["requires_followup"] ELSE TRUE

\* `if analysis.get("requires_followup", False)`
WantsFollowup(fields) ==
    IF "requires_followup" \in DOMAIN fields THEN fields["requires_followup"] ELSE FALSE

\* create_research_plan after analyze_query has returned
BuildPlan(analysis) ==
    IF analysis.type # "dict" THEN [error |-> "TypeError", steps |-> << >>]
    ELSE IF "priority_order" \notin DOMAIN analysis.fields
    THEN [error |-> "KeyError", steps |-> << >>]
    ELSE LET w == WalkPriority(analysis.fields["priority_order"], analysis.fields, << >>)
             followup == WantsFollowup(analysis.fields)
         IN IF w.error # "None" THEN w
            ELSE [error |-> "None",
                  steps |-> IF followup THEN Append(w.steps, FollowupStep) ELSE w.steps]

\* create_research_plan(query) is called: runs up to the await on the model
CreatePlan(q) ==
    /\ p_pc = "idle"
    /\ p_query' = q
    /\ p_llm_calls' = p_llm_calls + 1
    /\ p_pc' = "awaiting_llm"
    /\ UNCHANGED <<p_reply, p_analysis, p_steps, p_error>>

\* the model has answered: the reply is parsed, the steps are built, the
\* plan is returned or an exception leaves create_research_plan
LlmAnswered ==
    /\ p_pc = "awaiting_llm"
    /\ \E reply \in LlmReplies :
          LET analysis == AnalyzeQuery(p_query, reply)
              built == BuildPlan(analysis)
          IN /\ p_reply' = reply
             /\ p_analysis' = analysis
             /\ p_steps' = built.steps
             /\ p_error' = built.error
             /\ p_pc' = IF built.error = "None" THEN "returned" ELSE "raised"
    /\ UNCHANGED <<p_query, p_llm_calls>>

\* the plan is handed to execute_research_plan
ExecutePlanned ==
    /\ p_pc = "returned"
    /\ Start([k \in 1..Len(p_steps) |-> p_steps[k].type])
    /\ UNCHANGED planVars

(***************************************************************************)
(* TaskExecutor._execute_web_search: search, then visit the top pages      *)
(***************************************************************************)

\* the longest result list browser_session.search hands back in the model
MaxFound == 3

ResultUrls == {"https://a.example/1", "https://b.example/2"}

\* one entry of the list BrowserSession.search returns
SearchHit(u) == [url |-> u, title |-> "hit"]

\* the lists search can return: any hits, in any order, repeats included
SearchResultLists ==
    UNION { [1..n -> {SearchHit(u) : u \in ResultUrls}] : n \in 0..MaxFound }

\* the ways one `await self.browser_session.visit_page(url)` can end:
\* the page was extracted, navigate() returned False, or an exception left
\* visit_page (initialize() or a failing extraction fallback)
VisitOutcomes == {"extracted", "navigation_failed", "raised"}

\* visit_page's dictionary for a page it navigated to
PageRecord(u) == [url |-> u, title |-> "page title", content |-> "page text"]

\* visit_page's dictionary when navigate() returned False
NavigationError(u) == [error |-> <<"Failed to navigate to ", u>>]

\* what visit_page returns (it returns nothing when it raises)
VisitPageReturns(u, outcome) ==
    IF outcome = "extracted" THEN PageRecord(u) ELSE NavigationError(u)

\* truth value of a dictionary: it has at least one key
TruthyDict(d) == DOMAIN d # {}

\* {**result, "content": page_content}
Enrich(result, page_content) ==
    [url |-> result.url, title |-> result.title, content |-> page_content]

\* `if page_content: page_contents.append(...)`
AppendPage(contents, result, page_content) ==
    IF TruthyDict(page_content)
    THEN Append(contents, Enrich(result, page_content))
    ELSE contents

\* search_results[:max_results]
Take(s, n) == SubSeq(s, 1, IF n < Len(s) THEN n ELSE Len(s))

\* the dictionary the step returns
WebSearchResult(contents) ==
    [type |-> "web_search", results |-> contents, status |-> "complete"]

\* _execute_web_search is called: it reads max_results and awaits the search
WebSearchCall(max_results) ==
    /\ w_pc = "idle"
    /\ w_pc' = "searching"
    /\ w_max_results' = max_results
    /\ search_results' = << >>
    /\ w_k' = 1
    /\ page_contents' = << >>
    /\ w_visits' = << >>
    /\ w_return' = [status |-> "none"]

\* the search returns its list; the loop starts on search_results[:max_results]
SearchReturned(found) ==
    /\ w_pc = "searching"
    /\ search_results' = found
    /\ w_pc' = "visiting"
    /\ UNCHANGED <<w_max_results, w_k, page_contents, w_visits, w_return>>

\* the search raises: nothing catches it inside _execute_web_search
SearchRaised ==
    /\ w_pc = "searching"
    /\ w_pc' = "raised"
    /\ UNCHANGED <<w_max_results, search_results, w_k, page_contents, w_visits, w_return>>

\* one pass of the loop body: the awaited visit ends with `outcome`
VisitDone(outcome) ==
    /\ w_pc = "visiting"
    /\ w_k <= Len(Take(search_results, w_max_results))
    /\ LET result == Take(search_results, w_max_results)[w_k]
       IN page_contents' =
              IF outcome = "raised" THEN page_contents
              ELSE AppendPage(page_contents, result, VisitPageReturns(result.url, outcome))
    /\ w_visits' = Append(w_visits, outcome)
    /\ w_k' = w_k + 1
    /\ UNCHANGED <<w_pc, w_max_results, search_results, w_return>>

\* the loop is exhausted: the step's dictionary is returned
WebSearchReturn ==
    /\ w_pc = "visiting"
    /\ w_k > Len(Take(search_results, w_max_results))
    /\ w_return' = WebSearchResult(page_contents)
    /\ w_pc' = "returned"
    /\ UNCHANGED <<w_max_results, search_results, w_k, page_contents, w_visits>>

\* the caller is done with the result; the executor can run another step
WebSearchReset ==
    /\ w_pc \in {"returned", "raised"}
    /\ w_pc' = "idle"
    /\ UNCHANGED <<w_max_results, search_results, w_k, page_contents, w_visits, w_return>>

(***************************************************************************)
(* ReportGenerator: generate_report, _summarize_research_results and       *)
(* format_citations                                                        *)
(***************************************************************************)

\* the most StepResults a research_results record holds in the model
MaxReportSteps == 2

\* `if len(formatted_results) > 6000`
SerialisedLimit == 6000

\* `len(page["content"]) > 800`
ContentLimit == 800

\* a string of n characters; item texts are only measured, never read
Text(n) == [chars |-> n]

IsText(v) == DOMAIN v = {"chars"}

\* len(): the characters of a string, the keys of a dictionary
PyLen(v) == IF IsText(v) THEN v.chars ELSE Cardinality(DOMAIN v)

\* truth value of a string or dictionary
PyTruthy(v) == PyLen(v) > 0

\* the dictionary visit_page returns for a page whose text has n characters
VisitedPage(u, n) ==
    [url |-> u, title |-> "page title", content |-> Text(n),
     metadata |-> "metadata", timestamp |-> "time"]

\* the dictionary visit_page returns when the navigation failed
FailedPage == [error |-> Text(40)]

\* the page records _execute_web_search puts into a step's results
PageItems ==
    { Enrich(SearchHit("https://a.example/1"), VisitedPage("https://a.example/1", 300)),
      Enrich(SearchHit("https://b.example/2"), VisitedPage("https://b.example/2", 7000)),
      Enrich(SearchHit("https://b.example/2"), FailedPage) }

\* an article as WikipediaSource returns it
WikiItem(n) ==
    [title |-> "Article", content |-> Text(n), url |-> "https://en.wikipedia.org/wiki/Article"]

\* a paper as ArxivSource returns it: an abstract, no content
ArxivItem(n) ==
    [title |-> "Paper", abstract |-> Text(n), url |-> "https://arxiv.org/abs/1"]

\* items a source may also hand back: without a url, without a title
NoUrlItem(n) == [title |-> "Note", content |-> Text(n)]
NoTitleItem(n) == [url |-> "https://c.example/3", content |-> Text(n)]

\* the result lists of a web_search StepResult
PageLists ==
    { << >> } \cup { <<p>> : p \in PageItems } \cup
    { << Enrich(SearchHit("https://a.example/1"), VisitedPage("https://a.example/1", 300)),
         Enrich(SearchHit("https://b.example/2"), VisitedPage("https://b.example/2", 7000)) >> }

\* the result lists of a knowledge_source StepResult
ItemLists ==
    { << >>,
      << WikiItem(ContentLimit) >>,
      << WikiItem(ContentLimit + 1), WikiItem(0) >>,
      << WikiItem(7000), NoUrlItem(900) >>,
      << ArxivItem(7000), NoTitleItem(100) >> }

\* what _execute_step returns
WebSearchStepResult(pages) ==
    [type |-> "web_search", search_engine |-> "google", query |-> <<"q", "c">>,
     results |-> pages, status |-> "complete"]

KnowledgeStepResult(source, items) ==
    [type |-> "knowledge_source", source |-> source, query |-> <<"q", "c">>,
     results |-> items, status |-> "complete"]

FollowupStepResult ==
    [type |-> "generate_followup", questions |-> "questions", status |-> "complete"]

ErrorStepResult(type) ==
    [type |-> type, status |-> "error", error |-> "boom"]

StepResults ==
    { WebSearchStepResult(p) : p \in PageLists } \cup
    { KnowledgeStepResult("wikipedia", i) : i \in ItemLists } \cup
    { FollowupStepResult, ErrorStepResult("web_search"), ErrorStepResult("knowledge_source") }

\* the records execute_research_plan hands to the report generator
ResearchResultsRecords ==
    { [query |-> <<"q", "c">>, status |-> "complete", results |-> r] :
        r \in UNION { [1..n -> StepResults] : n \in 0..MaxReportSteps } }

\* the texts llm_client.complete returns for the report
LlmReports ==
    { << >>,
      <<"#", " ", "T">>,
      <<"#", "T">>,
      <<"#">>,
      <<"#", "#", " ", "T">>,
      <<" ", "#", " ", "T">>,
      <<"E", "r", "r", "o", "r", ":", " ", "x">> }

\* the texts llm_client.summarize returns
Summaries == { Text(300), Text(0) }

RECURSIVE SumSeq(_)
SumSeq(s) == IF s = << >> THEN 0 ELSE Head(s) + SumSeq(Tail(s))

\* step_result.get("results", [])
GetResults(step) == IF "results" \in DOMAIN step THEN step.results ELSE << >>

\* the characters json.dumps writes for one text-bearing value
TextChars(v) ==
    IF IsText(v) THEN v.chars
    ELSE IF "content" \in DOMAIN v THEN v.content.chars
    ELSE IF "error" \in DOMAIN v THEN v.error.chars
    ELSE 0

\* the characters json.dumps writes for one item: its texts in full, and an
\* allowance for its keys, short values, quotes and indentation
ItemChars(item) ==
    60 + (IF "content" \in DOMAIN item THEN TextChars(item.content) ELSE 0)
       + (IF "abstract" \in DOMAIN item THEN TextChars(item.abstract) ELSE 0)

StepChars(step) ==
    40 + SumSeq([i \in 1..Len(GetResults(step)) |-> ItemChars(GetResults(step)[i])])

\* len(json.dumps(research_results, indent=2))
SerialisedLength(rr) ==
    50 + SumSeq([i \in 1..Len(rr.results) |-> StepChars(rr.results[i])])

\* `"content" in page and page["content"] and len(page["content"]) > 800`
NeedsSummary(item) ==
    /\ "content" \in DOMAIN item
    /\ PyTruthy(item.content)
    /\ PyLen(item.content) > ContentLimit

\* page = page.copy(); page["content"] = summary; page["summarized"] = True
SummarizeItem(item, summary) ==
    IF NeedsSummary(item)
    THEN [k \in DOMAIN item \cup {"summarized"} |->
             IF k = "content" THEN summary
             ELSE IF k = "summarized" THEN TRUE
             ELSE item[k]]
    ELSE item

SummarizeItems(items, summary) ==
    [i \in 1..Len(items) |-> SummarizeItem(items[i], summary)]

\* summarized_step["results"] = ...
WithResults(step, r) ==
    [k \in DOMAIN step \cup {"results"} |-> IF k = "results" THEN r ELSE step[k]]

\* one pass of the loop over research_results["results"]
SummarizeStep(step, summary) ==
    IF step.type = "web_search"
    THEN WithResults(step, SummarizeItems(GetResults(step), summary))
    ELSE IF step.type = "knowledge_source"
    THEN WithResults(step, SummarizeItems(GetResults(step), summary))
    ELSE step

\* _summarize_research_results
SummarizeResearchResults(rr, summary) ==
    [query |-> rr.query, status |-> rr.status,
     results |-> [i \in 1..Len(rr.results) |-> SummarizeStep(rr.results[i], summary)]]

\* the llm_client.summarize calls _summarize_research_results makes
SummarizeCalls(rr) ==
    SumSeq([i \in 1..Len(rr.results) |->
        IF rr.results[i].type \in {"web_search", "knowledge_source"}
        THEN Cardinality({ j \in 1..Len(GetResults(rr.results[i])) :
                             NeedsSummary(GetResults(rr.results[i])[j]) })
        ELSE 0])

\* a heading is demanded only to start with "#"
EnsureHeadingHashOnly(report, query) ==
    IF ~StartsWith(report, <<"#">>)
    THEN <<"#", " ", "Research Report: ">> \o query \o <<"\n\n">> \o report
    ELSE report

\* if not report.startswith("# "): report = f"# Research Report: {query}\n\n{report}"
EnsureHeading(report, query) ==
    IF ~StartsWith(report, <<"#", " ">>)
    THEN <<"#", " ", "Research Report: ">> \o query \o <<"\n\n">> \o report
    ELSE report

\* str.capitalize of a source name
Capitalize(source) ==
    CASE source = "wikipedia" -> "Wikipedia"
      [] source = "arxiv" -> "Arxiv"
      [] OTHER -> source

\* f"{citation_index}. {page['title']}. Retrieved from {page['url']}"
WebCitation(index, item) ==
    IntStr(index) \o <<". ", item.title, ". Retrieved from ", item.url>>

\* f"{citation_index}. {item['title']}. {source.capitalize()}. Retrieved from {item['url']}"
KnowledgeCitation(index, item, source) ==
    IntStr(index) \o <<". ", item.title, ". ", Capitalize(source), ". Retrieved from ", item.url>>

\* `if "url" in page and "title" in page`
Citable(item) == "url" \in DOMAIN item /\ "title" \in DOMAIN item

\* the index stays where it is
NextIndexSame(index) == index

\* citation_index += 1
NextIndex(index) == index + 1

\* the inner loop over one step's results; acc is [citations, citation_index]
RECURSIVE CiteItems(_, _, _)
CiteItems(items, step, acc) ==
    IF items = << >> THEN acc
    ELSE LET item == Head(items)
             line == IF step.type = "web_search"
                     THEN WebCitation(acc.citation_index, item)
                     ELSE KnowledgeCitation(acc.citation_index, item, step.source)
         IN IF Citable(item)
            THEN CiteItems(Tail(items), step,
                           [citations |-> Append(acc.citations, line),
                            citation_index |-> NextIndex(acc.citation_index)])
            ELSE CiteItems(Tail(items), step, acc)

\* the outer loop over research_results.get("results", [])
RECURSIVE CiteSteps(_, _)
CiteSteps(steps, acc) ==
    IF steps = << >> THEN acc
    ELSE IF Head(steps).type \in {"web_search", "knowledge_source"}
    THEN CiteSteps(Tail(steps), CiteItems(GetResults(Head(steps)), Head(steps), acc))
    ELSE CiteSteps(Tail(steps), acc)

\* "\n".join(citations)
RECURSIVE JoinLines(_)
JoinLines(lines) ==
    IF Len(lines) <= 1 THEN lines
    ELSE <<Head(lines), "\n">> \o JoinLines(Tail(lines))

\* format_citations
FormatCitations(rr) ==
    LET citations == CiteSteps(rr.results, [citations |-> << >>, citation_index |-> 1]).citations
    IN IF citations = << >> THEN << >>
       ELSE <<"## References\n\n">> \o JoinLines(citations)

\* the summary is written into the dict of the input itself
ItemAfterWriteInPlace(item, written) == written

\* `page = page.copy()` before the two assignments: they go to the new
\* dict, and the dict of the input stays as it is
ItemAfterWrite(item, written) == item

\* the items of a step of the input after _summarize_research_results has
\* gone through them
ItemsAfterSummarize(items, summary) ==
    [j \in 1..Len(items) |->
        ItemAfterWrite(items[j], SummarizeItem(items[j], summary))]

\* a step of the input after its pass of the loop: step_result.copy() takes
\* the new "results" list, the items of the old list are the dicts the
\* loop went through
StepAfterSummarize(step, summary) ==
    IF step.type \in {"web_search", "knowledge_source"} /\ "results" \in DOMAIN step
    THEN [step EXCEPT !.results = ItemsAfterSummarize(@, summary)]
    ELSE step

\* the research_results argument after _summarize_research_results: the
\* new dictionary is built next to it
InputAfterSummarize(rr, summary) ==
    [rr EXCEPT !.results =
        [i \in 1..Len(rr.results) |-> StepAfterSummarize(rr.results[i], summary)]]

\* generate_report is called: the results are serialised and measured
GenerateReport(rr) ==
    /\ rep_pc = "idle"
    /\ rep_results' = rr
    /\ rep_summarize_calls' = 0
    /\ rep_report' = << >>
    /\ IF SerialisedLength(rr) > SerialisedLimit
       THEN /\ rep_pc' = "summarising"
            /\ UNCHANGED rep_prompt_results
       ELSE /\ rep_pc' = "awaiting_report"
            /\ rep_prompt_results' = rr
    /\ UNCHANGED rep_citations

\* _summarize_research_results has run; the model answered every
\* summarize call with `summary`
Summarized(summary) ==
    /\ rep_pc = "summarising"
    /\ rep_prompt_results' = SummarizeResearchResults(rep_results, summary)
    /\ rep_summarize_calls' = SummarizeCalls(rep_results)
    /\ rep_results' = InputAfterSummarize(rep_results, summary)
    /\ rep_pc' = "awaiting_report"
    /\ UNCHANGED <<rep_report, rep_citations>>

\* the model's report text arrives; the heading is ensured and the text returned
ReportAnswered ==
    /\ rep_pc = "awaiting_report"
    /\ \E reply \in LlmReports :
           rep_report' = EnsureHeading(reply, rep_results.query)
    /\ rep_pc' = "returned"
    /\ UNCHANGED <<rep_results, rep_prompt_results, rep_summarize_calls, rep_citations>>

\* format_citations runs on a research_results record
FormatCitationsCall(rr) ==
    /\ rep_pc = "idle"
    /\ rep_results' = rr
    /\ rep_citations' = FormatCitations(rr)
    /\ rep_pc' = "cited"
    /\ UNCHANGED <<rep_prompt_results, rep_summarize_calls, rep_report>>

(***************************************************************************)
(* NavigationManager.normalize_url                                         *)
(*                                                                         *)
(* Strings are sequences of tokens: the delimiters of a URL one by one,    *)
(* and runs of letters ("http", "https", "x") as one token each.           *)
(***************************************************************************)

\* the longest input string, in tokens
MaxUrlLen == 4

UrlTokens == {"http", "x", ":", "/", ";", "#", "?", "["}

\* tokens made of scheme characters, starting with a letter
Words == {"http", "https", "x"}

UrlStrings == UNION { [1..n -> UrlTokens] : n \in 0..MaxUrlLen }

\* the schemes of this alphabet that urllib lists in uses_params and uses_netloc
ListedSchemes == { << >>, <<"http">>, <<"https">> }

SetMin(S) == CHOOSE x \in S : \A y \in S : x <= y
SetMax(S) == CHOOSE x \in S : \A y \in S : x >= y

Chars(s) == { s[i] : i \in 1..Len(s) }

\* str.find(c, start) with 1-based positions; 0 when there is none
Find(s, c, start) ==
    LET hits == { i \in start..Len(s) : s[i] = c }
    IN IF hits = {} THEN 0 ELSE SetMin(hits)

\* str.rfind(c) with 1-based positions; 0 when there is none
RFind(s, c) ==
    LET hits == { i \in 1..Len(s) : s[i] = c }
    IN IF hits = {} THEN 0 ELSE SetMax(hits)

\* the rest of s from position i on
From(s, i) == SubSeq(s, i, Len(s))

\* urlsplit, last step: the query is what follows the first "?"; a netloc
\* with an unmatched "[" raises ValueError
SplitQuery(scheme, netloc, rest, fragment) ==
    LET q == Find(rest, "?", 1)
    IN [raises |-> "[" \in Chars(netloc), scheme |-> scheme, netloc |-> netloc,
        path |-> IF q > 0 THEN SubSeq(rest, 1, q - 1) ELSE rest,
        query |-> IF q > 0 THEN From(rest, q + 1) ELSE << >>,
        fragment |-> fragment]

\* urlsplit, third step: the fragment is what follows the first "#"
SplitFragment(scheme, netloc, rest) ==
    LET h == Find(rest, "#", 1)
    IN SplitQuery(scheme, netloc,
                  IF h > 0 THEN SubSeq(rest, 1, h - 1) ELSE rest,
                  IF h > 0 THEN From(rest, h + 1) ELSE << >>)

\* urlsplit, second step: after "//" the netloc runs to the first of
\* "/", "?" and "#"
SplitNetloc(scheme, rest) ==
    LET delims == { k \in 3..Len(rest) : rest[k] \in {"/", "?", "#"} }
        delim == IF delims = {} THEN Len(rest) + 1 ELSE SetMin(delims)
    IN IF StartsWith(rest, <<"/", "/">>)
       THEN SplitFragment(scheme, SubSeq(rest, 3, delim - 1), From(rest, delim))
       ELSE SplitFragment(scheme, << >>, rest)

\* urlsplit, first step: the position of the ":" that ends a scheme, 0
\* when the string has no scheme
SchemeEnd(url) ==
    LET i == Find(url, ":", 1)
    IN IF i > 1 /\ \A k \in 1..(i - 1) : url[k] \in Words THEN i ELSE 0

\* urllib.parse.urlsplit: scheme, netloc, path, query and fragment
UrlSplit(url) ==
    LET i == SchemeEnd(url)
    IN IF i > 0 THEN SplitNetloc(SubSeq(url, 1, i - 1), From(url, i + 1))
       ELSE SplitNetloc(<< >>, url)

\* urllib.parse._splitparams: the parameters of the last path segment
SplitParams(url) ==
    LET i == IF "/" \in Chars(url) THEN Find(url, ";", RFind(url, "/"))
             ELSE Find(url, ";", 1)
    IN IF i = 0 THEN [path |-> url, params |-> << >>]
       ELSE [path |-> SubSeq(url, 1, i - 1), params |-> From(url, i + 1)]

\* urlparse, after urlsplit: the parameters leave the path of a scheme
\* that uses them
WithParams(s) ==
    LET p == IF s.scheme \in ListedSchemes /\ ";" \in Chars(s.path)
             THEN SplitParams(s.path)
             ELSE [path |-> s.path, params |-> << >>]
    IN [raises |-> s.raises, scheme |-> s.scheme, netloc |-> s.netloc,
        path |-> p.path, params |-> p.params, query |-> s.query,
        fragment |-> s.fragment]

\* urllib.parse.urlparse
UrlParse(url) == WithParams(UrlSplit(url))

\* urllib.parse.urlunparse
UrlUnparse(scheme, netloc, path, params, query, fragment) ==
    LET url1 == IF params # << >> THEN path \o <<";">> \o params ELSE path
        url2 == IF \/ netloc # << >>
                   \/ /\ scheme # << >>
                      /\ scheme \in ListedSchemes
                      /\ ~StartsWith(url1, <<"/", "/">>)
                THEN <<"/", "/">> \o netloc \o
                     (IF url1 # << >> /\ url1[1] # "/" THEN <<"/">> \o url1 ELSE url1)
                ELSE url1
        url3 == IF scheme # << >> THEN scheme \o <<":">> \o url2 ELSE url2
        url4 == IF query # << >> THEN url3 \o <<"?">> \o query ELSE url3
    IN IF fragment # << >> THEN url4 \o <<"#">> \o fragment ELSE url4

\* re.sub(r'/+', '/', path)
RECURSIVE CollapseSlashes(_)
CollapseSlashes(path) ==
    IF Len(path) <= 1 THEN path
    ELSE IF path[1] = "/" /\ path[2] = "/" THEN CollapseSlashes(Tail(path))
    ELSE <<Head(path)>> \o CollapseSlashes(Tail(path))

\* `if path.endswith('/') and len(path) > 1: path = path[:-1]`
StripTrailingSlash(path) ==
    IF Len(path) > 1 /\ path[Len(path)] = "/"
    THEN SubSeq(path, 1, Len(path) - 1)
    ELSE path

\* normalize_url from the path on: the path without repeated and trailing
\* slashes, and the url put together again without its fragment; an
\* exception of urlparse returns the url as it then is
Reconstruct(parsed, url) ==
    IF parsed.raises THEN url
    ELSE UrlUnparse(parsed.scheme, parsed.netloc,
                    StripTrailingSlash(CollapseSlashes(parsed.path)),
                    parsed.params, parsed.query, << >>)

\* `if not parsed.scheme: url = f"https://{url}"`, and the url parsed again
EnsureScheme(parsed, url) ==
    IF parsed.raises THEN url
    ELSE IF parsed.scheme = << >>
    THEN Reconstruct(UrlParse(<<"https", ":", "/", "/">> \o url),
                     <<"https", ":", "/", "/">> \o url)
    ELSE Reconstruct(parsed, url)

\* normalize_url
NormalizeUrl(url) == EnsureScheme(UrlParse(url), url)

\* normalize_url(n_url) is called
NormalizeCall ==
    /\ n_pc = "idle"
    /\ n_once' = NormalizeUrl(n_url)
    /\ n_pc' = "once"
    /\ UNCHANGED <<n_url, n_twice>>

\* normalize_url is called on what it returned
NormalizeAgain ==
    /\ n_pc = "once"
    /\ n_twice' = NormalizeUrl(n_once)
    /\ n_pc' = "twice"
    /\ UNCHANGED <<n_url, n_once>>

(***************************************************************************)
(* Two overlapping executions of execute_research_plan, as the web front   *)
(* end starts them: one background task per request on the one executor.   *)
(* A dict is an object: records[e] is the dict execution e created, and    *)
(* results_by_id says which dict self.research_results holds under a key.  *)
(***************************************************************************)

\* the most steps a plan of an overlapping execution has
MaxOverlapSteps == 2

Executions == {1, 2}

OverlapQueries == {"qa", "qb"}

\* the plans ResearchPlanner.create_research_plan returns: a query and
\* steps, no query_id
OverlapPlans ==
    { [query |-> q, steps |-> n] : q \in OverlapQueries, n \in 0..MaxOverlapSteps }

\* research_plan.get("query_id", str(hash(research_plan["query"])))
QueryId(e, p) ==
    IF "query_id" \in DOMAIN p THEN p.query_id ELSE <<"hash", p.query>>

\* execute_research_plan is called and awaits initialize()
OverlapStart(e, p) ==
    /\ o_pc[e] = "idle"
    /\ o_plan' = [o_plan EXCEPT ![e] = p]
    /\ o_pc' = [o_pc EXCEPT ![e] = "initializing"]
    /\ UNCHANGED <<o_i, results_by_id, records>>

\* initialize() returns: a new dict is stored under the query_id; a plan
\* without steps is marked complete at once
OverlapReset(e) ==
    /\ o_pc[e] = "initializing"
    /\ results_by_id' = [results_by_id EXCEPT ![QueryId(e, o_plan[e])] = e]
    /\ records' = [records EXCEPT ![e] =
           [query |-> o_plan[e].query, results |-> << >>,
            status |-> IF o_plan[e].steps = 0 THEN "complete" ELSE "in_progress",
            completed_steps |-> 0, total_steps |-> o_plan[e].steps]]
    /\ o_i' = [o_i EXCEPT ![e] = 0]
    /\ o_pc' = [o_pc EXCEPT ![e] = IF o_plan[e].steps = 0 THEN "returned" ELSE "in_step"]
    /\ UNCHANGED o_plan

\* _execute_step returns: the result is appended to, and counted in, the
\* dict found under the query_id; after the last step that dict is marked
\* complete
OverlapStepDone(e) ==
    /\ o_pc[e] = "in_step"
    /\ LET target == results_by_id[QueryId(e, o_plan[e])]
           last == ~(o_i[e] < o_plan[e].steps - 1)
       IN /\ records' = [records EXCEPT ![target] =
                 [@ EXCEPT !.results = Append(@, [of |-> e, step |-> o_i[e]]),
                           !.completed_steps = @ + 1,
                           !.status = StatusAfterStep(@, last)]]
          /\ o_pc' = [o_pc EXCEPT ![e] = IF last THEN "returned" ELSE "sleeping"]
    /\ UNCHANGED <<o_plan, o_i, results_by_id>>

\* the inter-step sleep ends
OverlapSleepDone(e) ==
    /\ o_pc[e] = "sleeping"
    /\ o_i' = [o_i EXCEPT ![e] = @ + 1]
    /\ o_pc' = [o_pc EXCEPT ![e] = "in_step"]
    /\ UNCHANGED <<o_plan, results_by_id, records>>

(***************************************************************************)
(* execute_research_plan on knowledge_source steps: _execute_step,         *)
(* _execute_knowledge_source_query and KnowledgeSourceManager.query, cut   *)
(* at the call of the source and at the inter-step sleep.                  *)
(***************************************************************************)

\* the most steps a plan of knowledge_source steps has
MaxKnowledgeSteps == 2

\* the sources a step can name: "scholar" is not enabled
StepSources == {"wikipedia", "arxiv", "scholar"}

\* a knowledge_source step as create_research_plan writes it
KnowledgeSteps ==
    { [type |-> "knowledge_source", source |-> s, query |-> QueryA, max_results |-> 1] :
        s \in StepSources }

KnowledgePlans == UNION { [1..n -> KnowledgeSteps] : n \in 0..MaxKnowledgeSteps }

\* the arguments _execute_knowledge_source_query passes to query
ArgsOf(step) ==
    [source |-> step.source, query |-> step.query, max_results |-> step.max_results]

\* query raises for a source it turns away
RejectedAnswerRaises(how) == [raised |-> TRUE, results |-> << >>]

\* `return []` of the two early returns of query
RejectedAnswer(how) == [raised |-> FALSE, results |-> << >>]

\* what _execute_step returns for a knowledge_source step: the dictionary
\* of _execute_knowledge_source_query, or the error result of its except
\* branch when query raised
KnowledgeQueryResult(step, answer) ==
    IF answer.raised
    THEN [type |-> step.type, status |-> "error", error |-> "raised"]
    ELSE [type |-> "knowledge_source", source |-> step.source, query |-> step.query,
          results |-> answer.results, status |-> "complete"]

\* the loop body after _execute_step returned r: the result is appended and
\* counted, and the record is marked complete after the last step
RecordAfterStep(record, r, last) ==
    [record EXCEPT !.results = IF Truthy(r) THEN AppendResult(@, r) ELSE @,
                   !.completed_steps = CompletedAfterStep(@, r),
                   !.status = StatusAfterStep(@, last)]

\* where the coroutine is after step i of n: in the sleep or returned
PcAfterStep(i, n) == IF PauseAfter(i, n) THEN "sleeping" ELSE "returned"

\* execute_research_plan up to the loop: the record is reset, and an empty
\* plan completes at once
KnowledgePlanStart(p) ==
    /\ ks_pc = "idle"
    /\ ks_plan' = p
    /\ ks_i' = 0
    /\ ks_record' = [results |-> << >>,
                     status |-> IF Len(p) = 0 THEN "complete" ELSE "in_progress",
                     completed_steps |-> 0]
    /\ ks_pc' = IF Len(p) = 0 THEN "returned" ELSE "loop"
    /\ UNCHANGED <<ks_args, ks_asked, regVars>>

\* the loop hands steps[i] to _execute_step, which calls query: a source
\* that is turned away and a cache hit are answered without suspension,
\* otherwise the source is called
KnowledgeStepDispatch ==
    /\ ks_pc = "loop"
    /\ LET step == ks_plan[ks_i + 1]
           a == ArgsOf(step)
           last == ks_i + 1 = Len(ks_plan)
       IN IF Rejected(a.source, k_sources) # "no"
          THEN /\ ks_record' = RecordAfterStep(ks_record,
                                  KnowledgeQueryResult(step,
                                      RejectedAnswer(Rejected(a.source, k_sources))),
                                  last)
               /\ ks_pc' = PcAfterStep(ks_i, Len(ks_plan))
               /\ UNCHANGED <<ks_args, ks_asked>>
          ELSE IF k_cache_enabled /\ InCache(k_cache, CacheKey(a))
          THEN /\ ks_record' = RecordAfterStep(ks_record,
                                  KnowledgeQueryResult(step,
                                      [raised |-> FALSE,
                                       results |-> CacheGet(k_cache, CacheKey(a)).value]),
                                  last)
               /\ ks_pc' = PcAfterStep(ks_i, Len(ks_plan))
               /\ UNCHANGED <<ks_args, ks_asked>>
          ELSE /\ ks_pc' = "querying"
               /\ ks_args' = a
               /\ ks_asked' = Append(ks_asked, a.source)
               /\ UNCHANGED ks_record
    /\ UNCHANGED <<ks_plan, ks_i, regVars>>

\* the source answers or raises (query then returns []); the results are
\* cached when the source answered, and the step result is appended
KnowledgeSourceDone(raised, results) ==
    /\ ks_pc = "querying"
    /\ results \in (IF raised THEN { << >> } ELSE SourceAnswers(ks_args))
    /\ k_cache' = IF raised THEN CacheOnRaise(k_cache, CacheKey(ks_args), ks_args)
                  ELSE IF k_cache_enabled
                  THEN PruneCache(CachePut(k_cache, CacheKey(ks_args), ks_args, results))
                  ELSE k_cache
    /\ ks_record' = RecordAfterStep(ks_record,
                        KnowledgeQueryResult(ks_plan[ks_i + 1],
                                             [raised |-> FALSE, results |-> results]),
                        ks_i + 1 = Len(ks_plan))
    /\ ks_pc' = PcAfterStep(ks_i, Len(ks_plan))
    /\ ks_args' = NoArgs
    /\ UNCHANGED <<ks_plan, ks_i, ks_asked, k_sources, k_cache_enabled, k_pc, k_args,
                   k_last, k_calls, k_invoked, k_inserted, k_hits>>

\* the inter-step asyncio.sleep ends; the for loop moves to the next step
KnowledgeSleepDone ==
    /\ ks_pc = "sleeping"
    /\ ks_i' = ks_i + 1
    /\ ks_pc' = "loop"
    /\ UNCHANGED <<ks_plan, ks_record, ks_args, ks_asked, regVars>>

(***************************************************************************)
(* BrowserSession.visit_page called by two tasks of one executor: both     *)
(* work on self.page, the one tab of the session.  The coroutine is cut at *)
(* page.goto, at the wait for the load and the screenshot, and at each of  *)
(* the three extractions.                                                  *)
(***************************************************************************)

\* the most visit_page calls of a run
MaxVisits == 3

\* tasks that may be inside visit_page at the same time
Visitors == {1, 2}

\* what the document at url u holds
TitleOf(u) == <<"title of", u>>
ContentOf(u) == <<"content of", u>>
MetadataOf(u) == <<"metadata of", u>>

\* the dictionary visit_page returns after the extractions
VisitRecord(u, title, content, metadata) ==
    [url |-> u, title |-> title, content |-> content, metadata |-> metadata]

\* visit_page(url) is called: navigate records the url in the history and
\* hands it to page.goto
VisitCall(c, u) ==
    /\ vp_pc[c] = "idle"
    /\ vp_calls < MaxVisits
    /\ vp_calls' = vp_calls + 1
    /\ vp_url' = [vp_url EXCEPT ![c] = u]
    /\ vp_got' = [vp_got EXCEPT ![c] = [title |-> "None", content |-> "None"]]
    /\ vp_pc' = [vp_pc EXCEPT ![c] = "goto"]
    /\ UNCHANGED <<vp_shown, vp_record>>

\* page.goto ends: the page shows the document of the url, or navigate
\* returns False and visit_page returns the error dictionary
VisitGotoDone(c, ok) ==
    /\ vp_pc[c] = "goto"
    /\ IF ok
       THEN /\ vp_shown' = vp_url[c]
            /\ vp_pc' = [vp_pc EXCEPT ![c] = "loading"]
            /\ UNCHANGED vp_record
       ELSE /\ vp_record' = [vp_record EXCEPT ![c] = NavigationError(vp_url[c])]
            /\ vp_pc' = [vp_pc EXCEPT ![c] = "idle"]
            /\ UNCHANGED vp_shown
    /\ UNCHANGED <<vp_url, vp_got, vp_calls>>

\* wait_for_page_load and take_screenshot are over
VisitLoaded(c) ==
    /\ vp_pc[c] = "loading"
    /\ vp_pc' = [vp_pc EXCEPT ![c] = "title"]
    /\ UNCHANGED <<vp_url, vp_shown, vp_got, vp_record, vp_calls>>

\* get_page_title: self.page.title() of the document the page shows
VisitTitle(c) ==
    /\ vp_pc[c] = "title"
    /\ vp_got' = [vp_got EXCEPT ![c].title = TitleOf(vp_shown)]
    /\ vp_pc' = [vp_pc EXCEPT ![c] = "content"]
    /\ UNCHANGED <<vp_url, vp_shown, vp_record, vp_calls>>

\* extract_main_content of the document the page shows
VisitContent(c) ==
    /\ vp_pc[c] = "content"
    /\ vp_got' = [vp_got EXCEPT ![c].content = ContentOf(vp_shown)]
    /\ vp_pc' = [vp_pc EXCEPT ![c] = "metadata"]
    /\ UNCHANGED <<vp_url, vp_shown, vp_record, vp_calls>>

\* extract_metadata of the document the page shows; visit_page returns
VisitMetadata(c) ==
    /\ vp_pc[c] = "metadata"
    /\ vp_record' = [vp_record EXCEPT ![c] =
                        VisitRecord(vp_url[c], vp_got[c].title, vp_got[c].content,
                                    MetadataOf(vp_shown))]
    /\ vp_pc' = [vp_pc EXCEPT ![c] = "idle"]
    /\ UNCHANGED <<vp_url, vp_shown, vp_got, vp_calls>>

(***************************************************************************)
(* TaskExecutor.initialize, as execute_research_plan calls it at the start *)
(* of every execution, and KnowledgeSourceManager.initialize.  The         *)
(* execution of the plan itself is one step here.                          *)
(***************************************************************************)

\* the most execute_research_plan calls of a run
MaxExecutions == 3

\* the sources one run of KnowledgeSourceManager.initialize can register:
\* the import or the initialize of any enabled source may raise
InitialisableSets == SUBSET EnabledSources

\* `self.sources[source_name] = source` for the sources that initialised
SourcesAfterInit(sources, done) == sources \cup done

\* `if self.browser_session is None:`
NeedsBrowser(session) == session = "None"

\* execute_research_plan is called: initialize creates the browser session
\* when there is none and awaits its initialize, otherwise it goes on to
\* the knowledge sources
ExecuteCall ==
    /\ in_pc = "idle"
    /\ in_calls < MaxExecutions
    /\ in_calls' = in_calls + 1
    /\ IF NeedsBrowser(browser_session)
       THEN /\ browser_session' = "created"
            /\ in_sessions_created' = in_sessions_created + 1
            /\ in_pc' = "browser"
       ELSE /\ in_pc' = "sources"
            /\ UNCHANGED <<browser_session, in_sessions_created>>
    /\ UNCHANGED <<in_source_inits, in_replaced_open, ex_pc, plan, step_i,
                   research_results, dispatched, outcomes, regVars>>

\* BrowserSession.initialize returns, or raises out of execute_research_plan
BrowserSessionInitialized(ok) ==
    /\ in_pc = "browser"
    /\ browser_session' = IF ok THEN "ready" ELSE browser_session
    /\ in_pc' = IF ok THEN "sources" ELSE "idle"
    /\ UNCHANGED <<in_calls, in_sessions_created, in_source_inits, in_replaced_open,
                   ex_pc, plan, step_i, research_results, dispatched, outcomes, regVars>>

\* KnowledgeSourceManager.initialize has gone through enabled_sources: each
\* source in `done` was built, opened its HTTP session, registered its
\* context and was stored in self.sources, over the instance stored before
SourcesInitialized(done) ==
    /\ in_pc = "sources"
    /\ in_source_inits' = [s \in DOMAIN in_source_inits |->
                              IF s \in done THEN in_source_inits[s] + 1
                              ELSE in_source_inits[s]]
    /\ in_replaced_open' = in_replaced_open + Cardinality(done \cap k_sources)
    /\ k_sources' = SourcesAfterInit(k_sources, done)
    /\ in_pc' = "executing"
    /\ UNCHANGED <<in_calls, in_sessions_created, execVars, k_cache_enabled, k_cache,
                   k_pc, k_args, k_last, k_calls, k_invoked, k_inserted, k_hits>>

\* the steps of the plan have run and execute_research_plan returns
ExecuteReturned ==
    /\ in_pc = "executing"
    /\ in_pc' = "idle"
    /\ UNCHANGED <<in_calls, in_sessions_created, in_source_inits, in_replaced_open,
                   execVars, regVars>>

(***************************************************************************)
(* The web front end: start_research registers a task and schedules        *)
(* _conduct_research, which is cut at its awaits (planner, executor,       *)
(* report generator, the final sleep); get_research_result reads the two   *)
(* dictionaries at any time.                                               *)
(***************************************************************************)

\* the query_ids uuid4 hands out in a run
QueryIds == {1, 2}

\* the step counts of the plans the planner returns
PlanSizes == {0, 2}

AbsentTask == [status |-> "absent", progress |-> 0, total_steps |-> 0]

\* `query_id in self.active_tasks`, `query_id in self.results`
InActiveTasks(q) == active_tasks[q].status # "absent"
InResults(q) == ui_results[q] # "absent"

\* the task info start_research stores
NewTask == [status |-> "pending", progress |-> 0, total_steps |-> 0]

\* the awaits of _conduct_research, in order, and the status set before each
AfterAwait(pc) ==
    IF pc = "planning" THEN "executing"
    ELSE IF pc = "executing" THEN "reporting"
    ELSE "lingering"

\* get_research_result: the stored result, else the progress of the
\* active task, else 404
Answer(q) ==
    IF InResults(q) THEN "result"
    ELSE IF InActiveTasks(q) THEN "progress"
    ELSE "404"

\* start_research: a fresh query_id, its task info, and the background task
StartResearch(q) ==
    /\ q \notin ui_issued
    /\ ui_issued' = ui_issued \cup {q}
    /\ active_tasks' = [active_tasks EXCEPT ![q] = NewTask]
    /\ ui_pc' = [ui_pc EXCEPT ![q] = "scheduled"]
    /\ UNCHANGED <<ui_results, ui_response>>

\* _conduct_research starts: status "analyzing", then the planner is awaited
ConductResearch(q) ==
    /\ ui_pc[q] = "scheduled"
    /\ active_tasks' = [active_tasks EXCEPT ![q].status = "analyzing"]
    /\ ui_pc' = [ui_pc EXCEPT ![q] = "planning"]
    /\ UNCHANGED <<ui_results, ui_issued, ui_response>>

\* create_research_plan returns a plan of n steps
PlanReady(q, n) ==
    /\ ui_pc[q] = "planning"
    /\ active_tasks' = [active_tasks EXCEPT ![q].total_steps = n,
                                            ![q].status = "researching"]
    /\ ui_pc' = [ui_pc EXCEPT ![q] = AfterAwait("planning")]
    /\ UNCHANGED <<ui_results, ui_issued, ui_response>>

\* execute_research_plan returns
ResearchDone(q) ==
    /\ ui_pc[q] = "executing"
    /\ active_tasks' = [active_tasks EXCEPT ![q].status = "generating_report"]
    /\ ui_pc' = [ui_pc EXCEPT ![q] = AfterAwait("executing")]
    /\ UNCHANGED <<ui_results, ui_issued, ui_response>>

\* generate_report returns: the report is written and stored, the task is
\* marked complete, and the task sleeps before it removes its entry
ReportStored(q) ==
    /\ ui_pc[q] = "reporting"
    /\ ui_results' = [ui_results EXCEPT ![q] = "report"]
    /\ active_tasks' = [active_tasks EXCEPT ![q].status = "complete",
                                            ![q].progress = active_tasks[q].total_steps]
    /\ ui_pc' = [ui_pc EXCEPT ![q] = AfterAwait("reporting")]
    /\ UNCHANGED <<ui_issued, ui_response>>

\* an await of _conduct_research raises (the planner, the executor, the
\* report generator or the writing of the file): the except branch marks
\* the task as failed and sleeps before it removes the entry
ResearchRaised(q) ==
    /\ ui_pc[q] \in {"planning", "executing", "reporting"}
    /\ active_tasks' = [active_tasks EXCEPT ![q].status = "error"]
    /\ ui_pc' = [ui_pc EXCEPT ![q] = "lingering"]
    /\ UNCHANGED <<ui_results, ui_issued, ui_response>>

\* the sleep of five seconds is over: the entry leaves active_tasks
TaskRemoved(q) ==
    /\ ui_pc[q] = "lingering"
    /\ active_tasks' = [active_tasks EXCEPT ![q] = AbsentTask]
    /\ ui_pc' = [ui_pc EXCEPT ![q] = "ended"]
    /\ UNCHANGED <<ui_results, ui_issued, ui_response>>

\* GET /api/research/{query_id} for an id start_research returned
GetResearchResult(q) ==
    /\ q \in ui_issued
    /\ ui_response' = [ui_response EXCEPT ![q] = Answer(q)]
    /\ UNCHANGED <<active_tasks, ui_results, ui_pc, ui_issued>>

(***************************************************************************)
(* Web_searchSource.query called by two coroutines.  The coroutine is cut  *)
(* at its two awaits: the pacing sleep and the HTTP call of the search     *)
(* API.  Time is in whole seconds.                                         *)
(***************************************************************************)

\* the query calls of one run
MaxSearches == 3

\* the seconds the clock advances in one run
MaxSearchTime == 8

\* the numerator of 60 / self.requests_per_minute
SecondsPerMinute == 60

\* the coroutines that call query
Searchers == {1, 2}

\* configured rates; each divides 60, so that 60 / rate is a whole number
SearchRates == {10, 20, 30}

\* 60 / self.requests_per_minute
MinimumInterval(rpm) == SecondsPerMinute \div rpm

\* time_since_last = current_time - self.last_request_time
TimeSinceLast(current_time, last) == current_time - last

\* if time_since_last < (60 / self.requests_per_minute)
MustWait(current_time, last, rpm) == TimeSinceLast(current_time, last) < MinimumInterval(rpm)

\* wait_time = (60 / self.requests_per_minute) - time_since_last
WaitTime(current_time, last, rpm) ==
    MinimumInterval(rpm) - TimeSinceLast(current_time, last)

\* the request leaves at the current time: the history of requests
IssueRequest ==
    /\ ws_last_issue' = ws_now
    /\ ws_gaps' = IF ws_last_issue < 0 THEN ws_gaps
                  ELSE ws_gaps \cup {ws_now - ws_last_issue}

\* query is called: without a session it returns [] at once; otherwise it
\* reads the clock and either starts the pacing sleep or sends the request
SearchCall(c) ==
    /\ ws_pc[c] = "idle"
    /\ ws_calls < MaxSearches
    /\ ws_calls' = ws_calls + 1
    /\ IF ~ws_session
       THEN UNCHANGED <<ws_pc, ws_wake, ws_last_issue, ws_gaps>>
       ELSE IF MustWait(ws_now, ws_last_request_time, ws_requests_per_minute)
       THEN /\ ws_pc' = [ws_pc EXCEPT ![c] = "pacing"]
            /\ ws_wake' = [ws_wake EXCEPT ![c] = ws_now +
                   WaitTime(ws_now, ws_last_request_time, ws_requests_per_minute)]
            /\ UNCHANGED <<ws_last_issue, ws_gaps>>
       ELSE /\ ws_pc' = [ws_pc EXCEPT ![c] = "http"]
            /\ IssueRequest
            /\ UNCHANGED ws_wake
    /\ UNCHANGED <<ws_now, ws_requests_per_minute, ws_session, ws_last_request_time>>

\* asyncio.sleep(wait_time) is over: the request is sent
PacingDone(c) ==
    /\ ws_pc[c] = "pacing"
    /\ ws_now >= ws_wake[c]
    /\ ws_pc' = [ws_pc EXCEPT ![c] = "http"]
    /\ IssueRequest
    /\ UNCHANGED <<ws_now, ws_requests_per_minute, ws_session, ws_last_request_time,
                   ws_wake, ws_calls>>

\* the search API has answered: self.last_request_time = time.time()
SearchAnswered(c) ==
    /\ ws_pc[c] = "http"
    /\ ws_last_request_time' = ws_now
    /\ ws_pc' = [ws_pc EXCEPT ![c] = "idle"]
    /\ UNCHANGED <<ws_now, ws_requests_per_minute, ws_session, ws_wake, ws_calls,
                   ws_last_issue, ws_gaps>>

\* one second passes
SearchClockTick ==
    /\ ws_now < SecondsPerMinute + MaxSearchTime
    /\ ws_now' = ws_now + 1
    /\ UNCHANGED <<ws_requests_per_minute, ws_session, ws_last_request_time, ws_pc,
                   ws_wake, ws_calls, ws_last_issue, ws_gaps>>

(***************************************************************************)
(* Specifications                                                          *)
(***************************************************************************)
\* a TaskExecutor after __init__; the other components as constructed
InitExec ==
    /\ ex_pc = "idle"
    /\ plan = << >>
    /\ step_i = 0
    /\ browser_session = "None"
    /\ research_results = NoRecord
    /\ dispatched = << >>
    /\ outcomes = << >>
    /\ now = 0
    /\ respect_robots_txt = TRUE
    /\ requests_per_minute = RequestsPerMinute
    /\ delay_between_requests = DelayBetweenRequests
    /\ domain_timestamps = << >>
    /\ domain_locks = << >>
    /\ c_pc = [c \in Callers |-> "idle"]
    /\ c_url = [c \in Callers |-> NoUrl]
    /\ c_current_time = [c \in Callers |-> 0]
    /\ c_wake = [c \in Callers |-> 0]
    /\ c_verdict = [c \in Callers |-> "None"]
    /\ c_result = [c \in Callers |-> "None"]
    /\ c_calls = 0
    /\ c_call = [c \in Callers |-> 0]
    /\ recorded = << >>
    /\ g_pc = "idle"
    /\ g_url = NoUrl
    /\ g_respect = TRUE
    /\ g_rules = DefaultSiteRules
    /\ g_robots_allows = TRUE
    /\ g_robots_calls = 0
    /\ g_verdict = "None"
    /\ page = "None"
    /\ history = << >>
    /\ fetched = {}
    /\ b_pc = "idle"
    /\ b_url = NoUrl
    /\ r_now = 0
    /\ robot_parsers = << >>
    /\ cache_timestamps = << >>
    /\ r_pc = [c \in RobotsCallers |-> "idle"]
    /\ r_url = [c \in RobotsCallers |-> NoUrl]
    /\ r_current_time = [c \in RobotsCallers |-> 0]
    /\ r_last = NoAnswer
    /\ r_calls = 0
    /\ r_fetches = << >>
    /\ k_sources = {}
    /\ k_cache_enabled = FALSE
    /\ k_cache = << >>
    /\ k_pc = [q \in Queriers |-> "idle"]
    /\ k_args = [q \in Queriers |-> NoArgs]
    /\ k_last = NoReply
    /\ k_calls = 0
    /\ k_invoked = 0
    /\ k_inserted = << >>
    /\ k_hits = {}
    /\ p_pc = "idle"
    /\ p_query = NoText
    /\ p_reply = NoLlmReply
    /\ p_analysis = NoAnalysis
    /\ p_steps = << >>
    /\ p_error = "None"
    /\ p_llm_calls = 0
    /\ w_pc = "idle"
    /\ w_max_results = 1
    /\ search_results = << >>
    /\ w_k = 1
    /\ page_contents = << >>
    /\ w_visits = << >>
    /\ w_return = [status |-> "none"]
    /\ rep_pc = "idle"
    /\ rep_results = [query |-> << >>, status |-> "none", results |-> << >>]
    /\ rep_prompt_results = [query |-> << >>, status |-> "none", results |-> << >>]
    /\ rep_summarize_calls = 0
    /\ rep_report = << >>
    /\ rep_citations = << >>
    /\ n_pc = "idle"
    /\ n_url = << >>
    /\ n_once = << >>
    /\ n_twice = << >>
    /\ o_pc = [e \in {1, 2} |-> "idle"]
    /\ o_plan = [e \in {1, 2} |-> [query |-> "None", steps |-> 0]]
    /\ o_i = [e \in {1, 2} |-> 0]
    /\ results_by_id = [k \in {<<"hash", "qa">>, <<"hash", "qb">>} |-> 0]
    /\ records = [e \in {1, 2} |-> [query |-> "None", results |-> << >>, status |-> "None", completed_steps |-> 0, total_steps |-> 0]]
    /\ ks_pc = "idle"
    /\ ks_plan = << >>
    /\ ks_i = 0
    /\ ks_record = [results |-> << >>, status |-> "None", completed_steps |-> 0]
    /\ ks_args = [source |-> "None", query |-> << >>, max_results |-> 0]
    /\ ks_asked = << >>
    /\ vp_pc = [c \in {1, 2} |-> "idle"]
    /\ vp_url = [c \in {1, 2} |-> "None"]
    /\ vp_shown = "about:blank"
    /\ vp_got = [c \in {1, 2} |-> [title |-> "None", content |-> "None"]]
    /\ vp_record = [c \in {1, 2} |-> [status |-> "None"]]
    /\ vp_calls = 0
    /\ in_pc = "idle"
    /\ in_calls = 0
    /\ in_sessions_created = 0
    /\ in_source_inits = [s \in {"web_search", "wikipedia", "arxiv"} |-> 0]
    /\ in_replaced_open = 0
    /\ active_tasks = [q \in {1, 2} |-> [status |-> "absent", progress |-> 0, total_steps |-> 0]]
    /\ ui_results = [q \in {1, 2} |-> "absent"]
    /\ ui_pc = [q \in {1, 2} |-> "unused"]
    /\ ui_issued = {}
    /\ ui_response = [q \in {1, 2} |-> "None"]
    /\ ws_now = 0
    /\ ws_requests_per_minute = 10
    /\ ws_session = TRUE
    /\ ws_last_request_time = 0
    /\ ws_pc = [c \in {1, 2} |-> "idle"]
    /\ ws_wake = [c \in {1, 2} |-> 0]
    /\ ws_calls = 0
    /\ ws_last_issue = -1
    /\ ws_gaps = {}

\* a NavigationManager after __init__, with either robots setting
InitNav ==
    /\ ex_pc = "idle"
    /\ plan = << >>
    /\ step_i = 0
    /\ browser_session = "None"
    /\ research_results = NoRecord
    /\ dispatched = << >>
    /\ outcomes = << >>
    /\ now = 0
    /\ respect_robots_txt \in BOOLEAN
    /\ requests_per_minute = RequestsPerMinute
    /\ delay_between_requests = DelayBetweenRequests
    /\ domain_timestamps = << >>
    /\ domain_locks = << >>
    /\ c_pc = [c \in Callers |-> "idle"]
    /\ c_url = [c \in Callers |-> NoUrl]
    /\ c_current_time = [c \in Callers |-> 0]
    /\ c_wake = [c \in Callers |-> 0]
    /\ c_verdict = [c \in Callers |-> "None"]
    /\ c_result = [c \in Callers |-> "None"]
    /\ c_calls = 0
    /\ c_call = [c \in Callers |-> 0]
    /\ recorded = << >>
    /\ g_pc = "idle"
    /\ g_url = NoUrl
    /\ g_respect = TRUE
    /\ g_rules = DefaultSiteRules
    /\ g_robots_allows = TRUE
    /\ g_robots_calls = 0
    /\ g_verdict = "None"
    /\ page = "None"
    /\ history = << >>
    /\ fetched = {}
    /\ b_pc = "idle"
    /\ b_url = NoUrl
    /\ r_now = 0
    /\ robot_parsers = << >>
    /\ cache_timestamps = << >>
    /\ r_pc = [c \in RobotsCallers |-> "idle"]
    /\ r_url = [c \in RobotsCallers |-> NoUrl]
    /\ r_current_time = [c \in RobotsCallers |-> 0]
    /\ r_last = NoAnswer
    /\ r_calls = 0
    /\ r_fetches = << >>
    /\ k_sources = {}
    /\ k_cache_enabled = FALSE
    /\ k_cache = << >>
    /\ k_pc = [q \in Queriers |-> "idle"]
    /\ k_args = [q \in Queriers |-> NoArgs]
    /\ k_last = NoReply
    /\ k_calls = 0
    /\ k_invoked = 0
    /\ k_inserted = << >>
    /\ k_hits = {}
    /\ p_pc = "idle"
    /\ p_query = NoText
    /\ p_reply = NoLlmReply
    /\ p_analysis = NoAnalysis
    /\ p_steps = << >>
    /\ p_error = "None"
    /\ p_llm_calls = 0
    /\ w_pc = "idle"
    /\ w_max_results = 1
    /\ search_results = << >>
    /\ w_k = 1
    /\ page_contents = << >>
    /\ w_visits = << >>
    /\ w_return = [status |-> "none"]
    /\ rep_pc = "idle"
    /\ rep_results = [query |-> << >>, status |-> "none", results |-> << >>]
    /\ rep_prompt_results = [query |-> << >>, status |-> "none", results |-> << >>]
    /\ rep_summarize_calls = 0
    /\ rep_report = << >>
    /\ rep_citations = << >>
    /\ n_pc = "idle"
    /\ n_url = << >>
    /\ n_once = << >>
    /\ n_twice = << >>
    /\ o_pc = [e \in {1, 2} |-> "idle"]
    /\ o_plan = [e \in {1, 2} |-> [query |-> "None", steps |-> 0]]
    /\ o_i = [e \in {1, 2} |-> 0]
    /\ results_by_id = [k \in {<<"hash", "qa">>, <<"hash", "qb">>} |-> 0]
    /\ records = [e \in {1, 2} |-> [query |-> "None", results |-> << >>, status |-> "None", completed_steps |-> 0, total_steps |-> 0]]
    /\ ks_pc = "idle"
    /\ ks_plan = << >>
    /\ ks_i = 0
    /\ ks_record = [results |-> << >>, status |-> "None", completed_steps |-> 0]
    /\ ks_args = [source |-> "None", query |-> << >>, max_results |-> 0]
    /\ ks_asked = << >>
    /\ vp_pc = [c \in {1, 2} |-> "idle"]
    /\ vp_url = [c \in {1, 2} |-> "None"]
    /\ vp_shown = "about:blank"
    /\ vp_got = [c \in {1, 2} |-> [title |-> "None", content |-> "None"]]
    /\ vp_record = [c \in {1, 2} |-> [status |-> "None"]]
    /\ vp_calls = 0
    /\ in_pc = "idle"
    /\ in_calls = 0
    /\ in_sessions_created = 0
    /\ in_source_inits = [s \in {"web_search", "wikipedia", "arxiv"} |-> 0]
    /\ in_replaced_open = 0
    /\ active_tasks = [q \in {1, 2} |-> [status |-> "absent", progress |-> 0, total_steps |-> 0]]
    /\ ui_results = [q \in {1, 2} |-> "absent"]
    /\ ui_pc = [q \in {1, 2} |-> "unused"]
    /\ ui_issued = {}
    /\ ui_response = [q \in {1, 2} |-> "None"]
    /\ ws_now = 0
    /\ ws_requests_per_minute = 10
    /\ ws_session = TRUE
    /\ ws_last_request_time = 0
    /\ ws_pc = [c \in {1, 2} |-> "idle"]
    /\ ws_wake = [c \in {1, 2} |-> 0]
    /\ ws_calls = 0
    /\ ws_last_issue = -1
    /\ ws_gaps = {}

\* a NavigationManager with some site rules and robots setting, and the url
\* can_navigate is called with
InitGate ==
    /\ ex_pc = "idle"
    /\ plan = << >>
    /\ step_i = 0
    /\ browser_session = "None"
    /\ research_results = NoRecord
    /\ dispatched = << >>
    /\ outcomes = << >>
    /\ now = 0
    /\ respect_robots_txt = TRUE
    /\ requests_per_minute = RequestsPerMinute
    /\ delay_between_requests = DelayBetweenRequests
    /\ domain_timestamps = << >>
    /\ domain_locks = << >>
    /\ c_pc = [c \in Callers |-> "idle"]
    /\ c_url = [c \in Callers |-> NoUrl]
    /\ c_current_time = [c \in Callers |-> 0]
    /\ c_wake = [c \in Callers |-> 0]
    /\ c_verdict = [c \in Callers |-> "None"]
    /\ c_result = [c \in Callers |-> "None"]
    /\ c_calls = 0
    /\ c_call = [c \in Callers |-> 0]
    /\ recorded = << >>
    /\ g_pc = "idle"
    /\ g_url \in URLs
    /\ g_respect \in BOOLEAN
    /\ g_rules \in SiteRuleConfigs
    /\ g_robots_allows \in BOOLEAN
    /\ g_robots_calls = 0
    /\ g_verdict = "None"
    /\ page = "None"
    /\ history = << >>
    /\ fetched = {}
    /\ b_pc = "idle"
    /\ b_url = NoUrl
    /\ r_now = 0
    /\ robot_parsers = << >>
    /\ cache_timestamps = << >>
    /\ r_pc = [c \in RobotsCallers |-> "idle"]
    /\ r_url = [c \in RobotsCallers |-> NoUrl]
    /\ r_current_time = [c \in RobotsCallers |-> 0]
    /\ r_last = NoAnswer
    /\ r_calls = 0
    /\ r_fetches = << >>
    /\ k_sources = {}
    /\ k_cache_enabled = FALSE
    /\ k_cache = << >>
    /\ k_pc = [q \in Queriers |-> "idle"]
    /\ k_args = [q \in Queriers |-> NoArgs]
    /\ k_last = NoReply
    /\ k_calls = 0
    /\ k_invoked = 0
    /\ k_inserted = << >>
    /\ k_hits = {}
    /\ p_pc = "idle"
    /\ p_query = NoText
    /\ p_reply = NoLlmReply
    /\ p_analysis = NoAnalysis
    /\ p_steps = << >>
    /\ p_error = "None"
    /\ p_llm_calls = 0
    /\ w_pc = "idle"
    /\ w_max_results = 1
    /\ search_results = << >>
    /\ w_k = 1
    /\ page_contents = << >>
    /\ w_visits = << >>
    /\ w_return = [status |-> "none"]
    /\ rep_pc = "idle"
    /\ rep_results = [query |-> << >>, status |-> "none", results |-> << >>]
    /\ rep_prompt_results = [query |-> << >>, status |-> "none", results |-> << >>]
    /\ rep_summarize_calls = 0
    /\ rep_report = << >>
    /\ rep_citations = << >>
    /\ n_pc = "idle"
    /\ n_url = << >>
    /\ n_once = << >>
    /\ n_twice = << >>
    /\ o_pc = [e \in {1, 2} |-> "idle"]
    /\ o_plan = [e \in {1, 2} |-> [query |-> "None", steps |-> 0]]
    /\ o_i = [e \in {1, 2} |-> 0]
    /\ results_by_id = [k \in {<<"hash", "qa">>, <<"hash", "qb">>} |-> 0]
    /\ records = [e \in {1, 2} |-> [query |-> "None", results |-> << >>, status |-> "None", completed_steps |-> 0, total_steps |-> 0]]
    /\ ks_pc = "idle"
    /\ ks_plan = << >>
    /\ ks_i = 0
    /\ ks_record = [results |-> << >>, status |-> "None", completed_steps |-> 0]
    /\ ks_args = [source |-> "None", query |-> << >>, max_results |-> 0]
    /\ ks_asked = << >>
    /\ vp_pc = [c \in {1, 2} |-> "idle"]
    /\ vp_url = [c \in {1, 2} |-> "None"]
    /\ vp_shown = "about:blank"
    /\ vp_got = [c \in {1, 2} |-> [title |-> "None", content |-> "None"]]
    /\ vp_record = [c \in {1, 2} |-> [status |-> "None"]]
    /\ vp_calls = 0
    /\ in_pc = "idle"
    /\ in_calls = 0
    /\ in_sessions_created = 0
    /\ in_source_inits = [s \in {"web_search", "wikipedia", "arxiv"} |-> 0]
    /\ in_replaced_open = 0
    /\ active_tasks = [q \in {1, 2} |-> [status |-> "absent", progress |-> 0, total_steps |-> 0]]
    /\ ui_results = [q \in {1, 2} |-> "absent"]
    /\ ui_pc = [q \in {1, 2} |-> "unused"]
    /\ ui_issued = {}
    /\ ui_response = [q \in {1, 2} |-> "None"]
    /\ ws_now = 0
    /\ ws_requests_per_minute = 10
    /\ ws_session = TRUE
    /\ ws_last_request_time = 0
    /\ ws_pc = [c \in {1, 2} |-> "idle"]
    /\ ws_wake = [c \in {1, 2} |-> 0]
    /\ ws_calls = 0
    /\ ws_last_issue = -1
    /\ ws_gaps = {}

\* a BrowserSession after __init__
InitBrowser ==
    /\ ex_pc = "idle"
    /\ plan = << >>
    /\ step_i = 0
    /\ browser_session = "None"
    /\ research_results = NoRecord
    /\ dispatched = << >>
    /\ outcomes = << >>
    /\ now = 0
    /\ respect_robots_txt = TRUE
    /\ requests_per_minute = RequestsPerMinute
    /\ delay_between_requests = DelayBetweenRequests
    /\ domain_timestamps = << >>
    /\ domain_locks = << >>
    /\ c_pc = [c \in Callers |-> "idle"]
    /\ c_url = [c \in Callers |-> NoUrl]
    /\ c_current_time = [c \in Callers |-> 0]
    /\ c_wake = [c \in Callers |-> 0]
    /\ c_verdict = [c \in Callers |-> "None"]
    /\ c_result = [c \in Callers |-> "None"]
    /\ c_calls = 0
    /\ c_call = [c \in Callers |-> 0]
    /\ recorded = << >>
    /\ g_pc = "idle"
    /\ g_url = NoUrl
    /\ g_respect = TRUE
    /\ g_rules = DefaultSiteRules
    /\ g_robots_allows = TRUE
    /\ g_robots_calls = 0
    /\ g_verdict = "None"
    /\ page = "None"
    /\ history = << >>
    /\ fetched = {}
    /\ b_pc = "idle"
    /\ b_url = NoUrl
    /\ r_now = 0
    /\ robot_parsers = << >>
    /\ cache_timestamps = << >>
    /\ r_pc = [c \in RobotsCallers |-> "idle"]
    /\ r_url = [c \in RobotsCallers |-> NoUrl]
    /\ r_current_time = [c \in RobotsCallers |-> 0]
    /\ r_last = NoAnswer
    /\ r_calls = 0
    /\ r_fetches = << >>
    /\ k_sources = {}
    /\ k_cache_enabled = FALSE
    /\ k_cache = << >>
    /\ k_pc = [q \in Queriers |-> "idle"]
    /\ k_args = [q \in Queriers |-> NoArgs]
    /\ k_last = NoReply
    /\ k_calls = 0
    /\ k_invoked = 0
    /\ k_inserted = << >>
    /\ k_hits = {}
    /\ p_pc = "idle"
    /\ p_query = NoText
    /\ p_reply = NoLlmReply
    /\ p_analysis = NoAnalysis
    /\ p_steps = << >>
    /\ p_error = "None"
    /\ p_llm_calls = 0
    /\ w_pc = "idle"
    /\ w_max_results = 1
    /\ search_results = << >>
    /\ w_k = 1
    /\ page_contents = << >>
    /\ w_visits = << >>
    /\ w_return = [status |-> "none"]
    /\ rep_pc = "idle"
    /\ rep_results = [query |-> << >>, status |-> "none", results |-> << >>]
    /\ rep_prompt_results = [query |-> << >>, status |-> "none", results |-> << >>]
    /\ rep_summarize_calls = 0
    /\ rep_report = << >>
    /\ rep_citations = << >>
    /\ n_pc = "idle"
    /\ n_url = << >>
    /\ n_once = << >>
    /\ n_twice = << >>
    /\ o_pc = [e \in {1, 2} |-> "idle"]
    /\ o_plan = [e \in {1, 2} |-> [query |-> "None", steps |-> 0]]
    /\ o_i = [e \in {1, 2} |-> 0]
    /\ results_by_id = [k \in {<<"hash", "qa">>, <<"hash", "qb">>} |-> 0]
    /\ records = [e \in {1, 2} |-> [query |-> "None", results |-> << >>, status |-> "None", completed_steps |-> 0, total_steps |-> 0]]
    /\ ks_pc = "idle"
    /\ ks_plan = << >>
    /\ ks_i = 0
    /\ ks_record = [results |-> << >>, status |-> "None", completed_steps |-> 0]
    /\ ks_args = [source |-> "None", query |-> << >>, max_results |-> 0]
    /\ ks_asked = << >>
    /\ vp_pc = [c \in {1, 2} |-> "idle"]
    /\ vp_url = [c \in {1, 2} |-> "None"]
    /\ vp_shown = "about:blank"
    /\ vp_got = [c \in {1, 2} |-> [title |-> "None", content |-> "None"]]
    /\ vp_record = [c \in {1, 2} |-> [status |-> "None"]]
    /\ vp_calls = 0
    /\ in_pc = "idle"
    /\ in_calls = 0
    /\ in_sessions_created = 0
    /\ in_source_inits = [s \in {"web_search", "wikipedia", "arxiv"} |-> 0]
    /\ in_replaced_open = 0
    /\ active_tasks = [q \in {1, 2} |-> [status |-> "absent", progress |-> 0, total_steps |-> 0]]
    /\ ui_results = [q \in {1, 2} |-> "absent"]
    /\ ui_pc = [q \in {1, 2} |-> "unused"]
    /\ ui_issued = {}
    /\ ui_response = [q \in {1, 2} |-> "None"]
    /\ ws_now = 0
    /\ ws_requests_per_minute = 10
    /\ ws_session = TRUE
    /\ ws_last_request_time = 0
    /\ ws_pc = [c \in {1, 2} |-> "idle"]
    /\ ws_wake = [c \in {1, 2} |-> 0]
    /\ ws_calls = 0
    /\ ws_last_issue = -1
    /\ ws_gaps = {}

\* a RobotsParser after __init__: nothing cached
InitRobots ==
    /\ ex_pc = "idle"
    /\ plan = << >>
    /\ step_i = 0
    /\ browser_session = "None"
    /\ research_results = NoRecord
    /\ dispatched = << >>
    /\ outcomes = << >>
    /\ now = 0
    /\ respect_robots_txt = TRUE
    /\ requests_per_minute = RequestsPerMinute
    /\ delay_between_requests = DelayBetweenRequests
    /\ domain_timestamps = << >>
    /\ domain_locks = << >>
    /\ c_pc = [c \in Callers |-> "idle"]
    /\ c_url = [c \in Callers |-> NoUrl]
    /\ c_current_time = [c \in Callers |-> 0]
    /\ c_wake = [c \in Callers |-> 0]
    /\ c_verdict = [c \in Callers |-> "None"]
    /\ c_result = [c \in Callers |-> "None"]
    /\ c_calls = 0
    /\ c_call = [c \in Callers |-> 0]
    /\ recorded = << >>
    /\ g_pc = "idle"
    /\ g_url = NoUrl
    /\ g_respect = TRUE
    /\ g_rules = DefaultSiteRules
    /\ g_robots_allows = TRUE
    /\ g_robots_calls = 0
    /\ g_verdict = "None"
    /\ page = "None"
    /\ history = << >>
    /\ fetched = {}
    /\ b_pc = "idle"
    /\ b_url = NoUrl
    /\ r_now = 0
    /\ robot_parsers = << >>
    /\ cache_timestamps = << >>
    /\ r_pc = [c \in RobotsCallers |-> "idle"]
    /\ r_url = [c \in RobotsCallers |-> NoUrl]
    /\ r_current_time = [c \in RobotsCallers |-> 0]
    /\ r_last = NoAnswer
    /\ r_calls = 0
    /\ r_fetches = << >>
    /\ k_sources = {}
    /\ k_cache_enabled = FALSE
    /\ k_cache = << >>
    /\ k_pc = [q \in Queriers |-> "idle"]
    /\ k_args = [q \in Queriers |-> NoArgs]
    /\ k_last = NoReply
    /\ k_calls = 0
    /\ k_invoked = 0
    /\ k_inserted = << >>
    /\ k_hits = {}
    /\ p_pc = "idle"
    /\ p_query = NoText
    /\ p_reply = NoLlmReply
    /\ p_analysis = NoAnalysis
    /\ p_steps = << >>
    /\ p_error = "None"
    /\ p_llm_calls = 0
    /\ w_pc = "idle"
    /\ w_max_results = 1
    /\ search_results = << >>
    /\ w_k = 1
    /\ page_contents = << >>
    /\ w_visits = << >>
    /\ w_return = [status |-> "none"]
    /\ rep_pc = "idle"
    /\ rep_results = [query |-> << >>, status |-> "none", results |-> << >>]
    /\ rep_prompt_results = [query |-> << >>, status |-> "none", results |-> << >>]
    /\ rep_summarize_calls = 0
    /\ rep_report = << >>
    /\ rep_citations = << >>
    /\ n_pc = "idle"
    /\ n_url = << >>
    /\ n_once = << >>
    /\ n_twice = << >>
    /\ o_pc = [e \in {1, 2} |-> "idle"]
    /\ o_plan = [e \in {1, 2} |-> [query |-> "None", steps |-> 0]]
    /\ o_i = [e \in {1, 2} |-> 0]
    /\ results_by_id = [k \in {<<"hash", "qa">>, <<"hash", "qb">>} |-> 0]
    /\ records = [e \in {1, 2} |-> [query |-> "None", results |-> << >>, status |-> "None", completed_steps |-> 0, total_steps |-> 0]]
    /\ ks_pc = "idle"
    /\ ks_plan = << >>
    /\ ks_i = 0
    /\ ks_record = [results |-> << >>, status |-> "None", completed_steps |-> 0]
    /\ ks_args = [source |-> "None", query |-> << >>, max_results |-> 0]
    /\ ks_asked = << >>
    /\ vp_pc = [c \in {1, 2} |-> "idle"]
    /\ vp_url = [c \in {1, 2} |-> "None"]
    /\ vp_shown = "about:blank"
    /\ vp_got = [c \in {1, 2} |-> [title |-> "None", content |-> "None"]]
    /\ vp_record = [c \in {1, 2} |-> [status |-> "None"]]
    /\ vp_calls = 0
    /\ in_pc = "idle"
    /\ in_calls = 0
    /\ in_sessions_created = 0
    /\ in_source_inits = [s \in {"web_search", "wikipedia", "arxiv"} |-> 0]
    /\ in_replaced_open = 0
    /\ active_tasks = [q \in {1, 2} |-> [status |-> "absent", progress |-> 0, total_steps |-> 0]]
    /\ ui_results = [q \in {1, 2} |-> "absent"]
    /\ ui_pc = [q \in {1, 2} |-> "unused"]
    /\ ui_issued = {}
    /\ ui_response = [q \in {1, 2} |-> "None"]
    /\ ws_now = 0
    /\ ws_requests_per_minute = 10
    /\ ws_session = TRUE
    /\ ws_last_request_time = 0
    /\ ws_pc = [c \in {1, 2} |-> "idle"]
    /\ ws_wake = [c \in {1, 2} |-> 0]
    /\ ws_calls = 0
    /\ ws_last_issue = -1
    /\ ws_gaps = {}

\* a KnowledgeSourceManager after initialize(), with caching on or off
InitRegistry ==
    /\ ex_pc = "idle"
    /\ plan = << >>
    /\ step_i = 0
    /\ browser_session = "None"
    /\ research_results = NoRecord
    /\ dispatched = << >>
    /\ outcomes = << >>
    /\ now = 0
    /\ respect_robots_txt = TRUE
    /\ requests_per_minute = RequestsPerMinute
    /\ delay_between_requests = DelayBetweenRequests
    /\ domain_timestamps = << >>
    /\ domain_locks = << >>
    /\ c_pc = [c \in Callers |-> "idle"]
    /\ c_url = [c \in Callers |-> NoUrl]
    /\ c_current_time = [c \in Callers |-> 0]
    /\ c_wake = [c \in Callers |-> 0]
    /\ c_verdict = [c \in Callers |-> "None"]
    /\ c_result = [c \in Callers |-> "None"]
    /\ c_calls = 0
    /\ c_call = [c \in Callers |-> 0]
    /\ recorded = << >>
    /\ g_pc = "idle"
    /\ g_url = NoUrl
    /\ g_respect = TRUE
    /\ g_rules = DefaultSiteRules
    /\ g_robots_allows = TRUE
    /\ g_robots_calls = 0
    /\ g_verdict = "None"
    /\ page = "None"
    /\ history = << >>
    /\ fetched = {}
    /\ b_pc = "idle"
    /\ b_url = NoUrl
    /\ r_now = 0
    /\ robot_parsers = << >>
    /\ cache_timestamps = << >>
    /\ r_pc = [c \in RobotsCallers |-> "idle"]
    /\ r_url = [c \in RobotsCallers |-> NoUrl]
    /\ r_current_time = [c \in RobotsCallers |-> 0]
    /\ r_last = NoAnswer
    /\ r_calls = 0
    /\ r_fetches = << >>
    /\ k_sources \in InitialisedSets
    /\ k_cache_enabled \in BOOLEAN
    /\ k_cache = << >>
    /\ k_pc = [q \in Queriers |-> "idle"]
    /\ k_args = [q \in Queriers |-> NoArgs]
    /\ k_last = NoReply
    /\ k_calls = 0
    /\ k_invoked = 0
    /\ k_inserted = << >>
    /\ k_hits = {}
    /\ p_pc = "idle"
    /\ p_query = NoText
    /\ p_reply = NoLlmReply
    /\ p_analysis = NoAnalysis
    /\ p_steps = << >>
    /\ p_error = "None"
    /\ p_llm_calls = 0
    /\ w_pc = "idle"
    /\ w_max_results = 1
    /\ search_results = << >>
    /\ w_k = 1
    /\ page_contents = << >>
    /\ w_visits = << >>
    /\ w_return = [status |-> "none"]
    /\ rep_pc = "idle"
    /\ rep_results = [query |-> << >>, status |-> "none", results |-> << >>]
    /\ rep_prompt_results = [query |-> << >>, status |-> "none", results |-> << >>]
    /\ rep_summarize_calls = 0
    /\ rep_report = << >>
    /\ rep_citations = << >>
    /\ n_pc = "idle"
    /\ n_url = << >>
    /\ n_once = << >>
    /\ n_twice = << >>
    /\ o_pc = [e \in {1, 2} |-> "idle"]
    /\ o_plan = [e \in {1, 2} |-> [query |-> "None", steps |-> 0]]
    /\ o_i = [e \in {1, 2} |-> 0]
    /\ results_by_id = [k \in {<<"hash", "qa">>, <<"hash", "qb">>} |-> 0]
    /\ records = [e \in {1, 2} |-> [query |-> "None", results |-> << >>, status |-> "None", completed_steps |-> 0, total_steps |-> 0]]
    /\ ks_pc = "idle"
    /\ ks_plan = << >>
    /\ ks_i = 0
    /\ ks_record = [results |-> << >>, status |-> "None", completed_steps |-> 0]
    /\ ks_args = [source |-> "None", query |-> << >>, max_results |-> 0]
    /\ ks_asked = << >>
    /\ vp_pc = [c \in {1, 2} |-> "idle"]
    /\ vp_url = [c \in {1, 2} |-> "None"]
    /\ vp_shown = "about:blank"
    /\ vp_got = [c \in {1, 2} |-> [title |-> "None", content |-> "None"]]
    /\ vp_record = [c \in {1, 2} |-> [status |-> "None"]]
    /\ vp_calls = 0
    /\ in_pc = "idle"
    /\ in_calls = 0
    /\ in_sessions_created = 0
    /\ in_source_inits = [s \in {"web_search", "wikipedia", "arxiv"} |-> 0]
    /\ in_replaced_open = 0
    /\ active_tasks = [q \in {1, 2} |-> [status |-> "absent", progress |-> 0, total_steps |-> 0]]
    /\ ui_results = [q \in {1, 2} |-> "absent"]
    /\ ui_pc = [q \in {1, 2} |-> "unused"]
    /\ ui_issued = {}
    /\ ui_response = [q \in {1, 2} |-> "None"]
    /\ ws_now = 0
    /\ ws_requests_per_minute = 10
    /\ ws_session = TRUE
    /\ ws_last_request_time = 0
    /\ ws_pc = [c \in {1, 2} |-> "idle"]
    /\ ws_wake = [c \in {1, 2} |-> 0]
    /\ ws_calls = 0
    /\ ws_last_issue = -1
    /\ ws_gaps = {}

\* a ResearchPlanner and a TaskExecutor after __init__
InitPlan ==
    /\ ex_pc = "idle"
    /\ plan = << >>
    /\ step_i = 0
    /\ browser_session = "None"
    /\ research_results = NoRecord
    /\ dispatched = << >>
    /\ outcomes = << >>
    /\ now = 0
    /\ respect_robots_txt = TRUE
    /\ requests_per_minute = RequestsPerMinute
    /\ delay_between_requests = DelayBetweenRequests
    /\ domain_timestamps = << >>
    /\ domain_locks = << >>
    /\ c_pc = [c \in Callers |-> "idle"]
    /\ c_url = [c \in Callers |-> NoUrl]
    /\ c_current_time = [c \in Callers |-> 0]
    /\ c_wake = [c \in Callers |-> 0]
    /\ c_verdict = [c \in Callers |-> "None"]
    /\ c_result = [c \in Callers |-> "None"]
    /\ c_calls = 0
    /\ c_call = [c \in Callers |-> 0]
    /\ recorded = << >>
    /\ g_pc = "idle"
    /\ g_url = NoUrl
    /\ g_respect = TRUE
    /\ g_rules = DefaultSiteRules
    /\ g_robots_allows = TRUE
    /\ g_robots_calls = 0
    /\ g_verdict = "None"
    /\ page = "None"
    /\ history = << >>
    /\ fetched = {}
    /\ b_pc = "idle"
    /\ b_url = NoUrl
    /\ r_now = 0
    /\ robot_parsers = << >>
    /\ cache_timestamps = << >>
    /\ r_pc = [c \in RobotsCallers |-> "idle"]
    /\ r_url = [c \in RobotsCallers |-> NoUrl]
    /\ r_current_time = [c \in RobotsCallers |-> 0]
    /\ r_last = NoAnswer
    /\ r_calls = 0
    /\ r_fetches = << >>
    /\ k_sources = {}
    /\ k_cache_enabled = FALSE
    /\ k_cache = << >>
    /\ k_pc = [q \in Queriers |-> "idle"]
    /\ k_args = [q \in Queriers |-> NoArgs]
    /\ k_last = NoReply
    /\ k_calls = 0
    /\ k_invoked = 0
    /\ k_inserted = << >>
    /\ k_hits = {}
    /\ p_pc = "idle"
    /\ p_query = NoText
    /\ p_reply = NoLlmReply
    /\ p_analysis = NoAnalysis
    /\ p_steps = << >>
    /\ p_error = "None"
    /\ p_llm_calls = 0
    /\ w_pc = "idle"
    /\ w_max_results = 1
    /\ search_results = << >>
    /\ w_k = 1
    /\ page_contents = << >>
    /\ w_visits = << >>
    /\ w_return = [status |-> "none"]
    /\ rep_pc = "idle"
    /\ rep_results = [query |-> << >>, status |-> "none", results |-> << >>]
    /\ rep_prompt_results = [query |-> << >>, status |-> "none", results |-> << >>]
    /\ rep_summarize_calls = 0
    /\ rep_report = << >>
    /\ rep_citations = << >>
    /\ n_pc = "idle"
    /\ n_url = << >>
    /\ n_once = << >>
    /\ n_twice = << >>
    /\ o_pc = [e \in {1, 2} |-> "idle"]
    /\ o_plan = [e \in {1, 2} |-> [query |-> "None", steps |-> 0]]
    /\ o_i = [e \in {1, 2} |-> 0]
    /\ results_by_id = [k \in {<<"hash", "qa">>, <<"hash", "qb">>} |-> 0]
    /\ records = [e \in {1, 2} |-> [query |-> "None", results |-> << >>, status |-> "None", completed_steps |-> 0, total_steps |-> 0]]
    /\ ks_pc = "idle"
    /\ ks_plan = << >>
    /\ ks_i = 0
    /\ ks_record = [results |-> << >>, status |-> "None", completed_steps |-> 0]
    /\ ks_args = [source |-> "None", query |-> << >>, max_results |-> 0]
    /\ ks_asked = << >>
    /\ vp_pc = [c \in {1, 2} |-> "idle"]
    /\ vp_url = [c \in {1, 2} |-> "None"]
    /\ vp_shown = "about:blank"
    /\ vp_got = [c \in {1, 2} |-> [title |-> "None", content |-> "None"]]
    /\ vp_record = [c \in {1, 2} |-> [status |-> "None"]]
    /\ vp_calls = 0
    /\ in_pc = "idle"
    /\ in_calls = 0
    /\ in_sessions_created = 0
    /\ in_source_inits = [s \in {"web_search", "wikipedia", "arxiv"} |-> 0]
    /\ in_replaced_open = 0
    /\ active_tasks = [q \in {1, 2} |-> [status |-> "absent", progress |-> 0, total_steps |-> 0]]
    /\ ui_results = [q \in {1, 2} |-> "absent"]
    /\ ui_pc = [q \in {1, 2} |-> "unused"]
    /\ ui_issued = {}
    /\ ui_response = [q \in {1, 2} |-> "None"]
    /\ ws_now = 0
    /\ ws_requests_per_minute = 10
    /\ ws_session = TRUE
    /\ ws_last_request_time = 0
    /\ ws_pc = [c \in {1, 2} |-> "idle"]
    /\ ws_wake = [c \in {1, 2} |-> 0]
    /\ ws_calls = 0
    /\ ws_last_issue = -1
    /\ ws_gaps = {}

\* a TaskExecutor about to run a web_search step
InitWeb ==
    /\ ex_pc = "idle"
    /\ plan = << >>
    /\ step_i = 0
    /\ browser_session = "None"
    /\ research_results = NoRecord
    /\ dispatched = << >>
    /\ outcomes = << >>
    /\ now = 0
    /\ respect_robots_txt = TRUE
    /\ requests_per_minute = RequestsPerMinute
    /\ delay_between_requests = DelayBetweenRequests
    /\ domain_timestamps = << >>
    /\ domain_locks = << >>
    /\ c_pc = [c \in Callers |-> "idle"]
    /\ c_url = [c \in Callers |-> NoUrl]
    /\ c_current_time = [c \in Callers |-> 0]
    /\ c_wake = [c \in Callers |-> 0]
    /\ c_verdict = [c \in Callers |-> "None"]
    /\ c_result = [c \in Callers |-> "None"]
    /\ c_calls = 0
    /\ c_call = [c \in Callers |-> 0]
    /\ recorded = << >>
    /\ g_pc = "idle"
    /\ g_url = NoUrl
    /\ g_respect = TRUE
    /\ g_rules = DefaultSiteRules
    /\ g_robots_allows = TRUE
    /\ g_robots_calls = 0
    /\ g_verdict = "None"
    /\ page = "None"
    /\ history = << >>
    /\ fetched = {}
    /\ b_pc = "idle"
    /\ b_url = NoUrl
    /\ r_now = 0
    /\ robot_parsers = << >>
    /\ cache_timestamps = << >>
    /\ r_pc = [c \in RobotsCallers |-> "idle"]
    /\ r_url = [c \in RobotsCallers |-> NoUrl]
    /\ r_current_time = [c \in RobotsCallers |-> 0]
    /\ r_last = NoAnswer
    /\ r_calls = 0
    /\ r_fetches = << >>
    /\ k_sources = {}
    /\ k_cache_enabled = FALSE
    /\ k_cache = << >>
    /\ k_pc = [q \in Queriers |-> "idle"]
    /\ k_args = [q \in Queriers |-> NoArgs]
    /\ k_last = NoReply
    /\ k_calls = 0
    /\ k_invoked = 0
    /\ k_inserted = << >>
    /\ k_hits = {}
    /\ p_pc = "idle"
    /\ p_query = NoText
    /\ p_reply = NoLlmReply
    /\ p_analysis = NoAnalysis
    /\ p_steps = << >>
    /\ p_error = "None"
    /\ p_llm_calls = 0
    /\ w_pc = "idle"
    /\ w_max_results = 1
    /\ search_results = << >>
    /\ w_k = 1
    /\ page_contents = << >>
    /\ w_visits = << >>
    /\ w_return = [status |-> "none"]
    /\ rep_pc = "idle"
    /\ rep_results = [query |-> << >>, status |-> "none", results |-> << >>]
    /\ rep_prompt_results = [query |-> << >>, status |-> "none", results |-> << >>]
    /\ rep_summarize_calls = 0
    /\ rep_report = << >>
    /\ rep_citations = << >>
    /\ n_pc = "idle"
    /\ n_url = << >>
    /\ n_once = << >>
    /\ n_twice = << >>
    /\ o_pc = [e \in {1, 2} |-> "idle"]
    /\ o_plan = [e \in {1, 2} |-> [query |-> "None", steps |-> 0]]
    /\ o_i = [e \in {1, 2} |-> 0]
    /\ results_by_id = [k \in {<<"hash", "qa">>, <<"hash", "qb">>} |-> 0]
    /\ records = [e \in {1, 2} |-> [query |-> "None", results |-> << >>, status |-> "None", completed_steps |-> 0, total_steps |-> 0]]
    /\ ks_pc = "idle"
    /\ ks_plan = << >>
    /\ ks_i = 0
    /\ ks_record = [results |-> << >>, status |-> "None", completed_steps |-> 0]
    /\ ks_args = [source |-> "None", query |-> << >>, max_results |-> 0]
    /\ ks_asked = << >>
    /\ vp_pc = [c \in {1, 2} |-> "idle"]
    /\ vp_url = [c \in {1, 2} |-> "None"]
    /\ vp_shown = "about:blank"
    /\ vp_got = [c \in {1, 2} |-> [title |-> "None", content |-> "None"]]
    /\ vp_record = [c \in {1, 2} |-> [status |-> "None"]]
    /\ vp_calls = 0
    /\ in_pc = "idle"
    /\ in_calls = 0
    /\ in_sessions_created = 0
    /\ in_source_inits = [s \in {"web_search", "wikipedia", "arxiv"} |-> 0]
    /\ in_replaced_open = 0
    /\ active_tasks = [q \in {1, 2} |-> [status |-> "absent", progress |-> 0, total_steps |-> 0]]
    /\ ui_results = [q \in {1, 2} |-> "absent"]
    /\ ui_pc = [q \in {1, 2} |-> "unused"]
    /\ ui_issued = {}
    /\ ui_response = [q \in {1, 2} |-> "None"]
    /\ ws_now = 0
    /\ ws_requests_per_minute = 10
    /\ ws_session = TRUE
    /\ ws_last_request_time = 0
    /\ ws_pc = [c \in {1, 2} |-> "idle"]
    /\ ws_wake = [c \in {1, 2} |-> 0]
    /\ ws_calls = 0
    /\ ws_last_issue = -1
    /\ ws_gaps = {}

\* a ReportGenerator before any call
InitReport ==
    /\ ex_pc = "idle"
    /\ plan = << >>
    /\ step_i = 0
    /\ browser_session = "None"
    /\ research_results = NoRecord
    /\ dispatched = << >>
    /\ outcomes = << >>
    /\ now = 0
    /\ respect_robots_txt = TRUE
    /\ requests_per_minute = RequestsPerMinute
    /\ delay_between_requests = DelayBetweenRequests
    /\ domain_timestamps = << >>
    /\ domain_locks = << >>
    /\ c_pc = [c \in Callers |-> "idle"]
    /\ c_url = [c \in Callers |-> NoUrl]
    /\ c_current_time = [c \in Callers |-> 0]
    /\ c_wake = [c \in Callers |-> 0]
    /\ c_verdict = [c \in Callers |-> "None"]
    /\ c_result = [c \in Callers |-> "None"]
    /\ c_calls = 0
    /\ c_call = [c \in Callers |-> 0]
    /\ recorded = << >>
    /\ g_pc = "idle"
    /\ g_url = NoUrl
    /\ g_respect = TRUE
    /\ g_rules = DefaultSiteRules
    /\ g_robots_allows = TRUE
    /\ g_robots_calls = 0
    /\ g_verdict = "None"
    /\ page = "None"
    /\ history = << >>
    /\ fetched = {}
    /\ b_pc = "idle"
    /\ b_url = NoUrl
    /\ r_now = 0
    /\ robot_parsers = << >>
    /\ cache_timestamps = << >>
    /\ r_pc = [c \in RobotsCallers |-> "idle"]
    /\ r_url = [c \in RobotsCallers |-> NoUrl]
    /\ r_current_time = [c \in RobotsCallers |-> 0]
    /\ r_last = NoAnswer
    /\ r_calls = 0
    /\ r_fetches = << >>
    /\ k_sources = {}
    /\ k_cache_enabled = FALSE
    /\ k_cache = << >>
    /\ k_pc = [q \in Queriers |-> "idle"]
    /\ k_args = [q \in Queriers |-> NoArgs]
    /\ k_last = NoReply
    /\ k_calls = 0
    /\ k_invoked = 0
    /\ k_inserted = << >>
    /\ k_hits = {}
    /\ p_pc = "idle"
    /\ p_query = NoText
    /\ p_reply = NoLlmReply
    /\ p_analysis = NoAnalysis
    /\ p_steps = << >>
    /\ p_error = "None"
    /\ p_llm_calls = 0
    /\ w_pc = "idle"
    /\ w_max_results = 1
    /\ search_results = << >>
    /\ w_k = 1
    /\ page_contents = << >>
    /\ w_visits = << >>
    /\ w_return = [status |-> "none"]
    /\ rep_pc = "idle"
    /\ rep_results = [query |-> << >>, status |-> "none", results |-> << >>]
    /\ rep_prompt_results = [query |-> << >>, status |-> "none", results |-> << >>]
    /\ rep_summarize_calls = 0
    /\ rep_report = << >>
    /\ rep_citations = << >>
    /\ n_pc = "idle"
    /\ n_url = << >>
    /\ n_once = << >>
    /\ n_twice = << >>
    /\ o_pc = [e \in {1, 2} |-> "idle"]
    /\ o_plan = [e \in {1, 2} |-> [query |-> "None", steps |-> 0]]
    /\ o_i = [e \in {1, 2} |-> 0]
    /\ results_by_id = [k \in {<<"hash", "qa">>, <<"hash", "qb">>} |-> 0]
    /\ records = [e \in {1, 2} |-> [query |-> "None", results |-> << >>, status |-> "None", completed_steps |-> 0, total_steps |-> 0]]
    /\ ks_pc = "idle"
    /\ ks_plan = << >>
    /\ ks_i = 0
    /\ ks_record = [results |-> << >>, status |-> "None", completed_steps |-> 0]
    /\ ks_args = [source |-> "None", query |-> << >>, max_results |-> 0]
    /\ ks_asked = << >>
    /\ vp_pc = [c \in {1, 2} |-> "idle"]
    /\ vp_url = [c \in {1, 2} |-> "None"]
    /\ vp_shown = "about:blank"
    /\ vp_got = [c \in {1, 2} |-> [title |-> "None", content |-> "None"]]
    /\ vp_record = [c \in {1, 2} |-> [status |-> "None"]]
    /\ vp_calls = 0
    /\ in_pc = "idle"
    /\ in_calls = 0
    /\ in_sessions_created = 0
    /\ in_source_inits = [s \in {"web_search", "wikipedia", "arxiv"} |-> 0]
    /\ in_replaced_open = 0
    /\ active_tasks = [q \in {1, 2} |-> [status |-> "absent", progress |-> 0, total_steps |-> 0]]
    /\ ui_results = [q \in {1, 2} |-> "absent"]
    /\ ui_pc = [q \in {1, 2} |-> "unused"]
    /\ ui_issued = {}
    /\ ui_response = [q \in {1, 2} |-> "None"]
    /\ ws_now = 0
    /\ ws_requests_per_minute = 10
    /\ ws_session = TRUE
    /\ ws_last_request_time = 0
    /\ ws_pc = [c \in {1, 2} |-> "idle"]
    /\ ws_wake = [c \in {1, 2} |-> 0]
    /\ ws_calls = 0
    /\ ws_last_issue = -1
    /\ ws_gaps = {}

\* a NavigationManager before normalize_url is called
InitNormalize ==
    /\ ex_pc = "idle"
    /\ plan = << >>
    /\ step_i = 0
    /\ browser_session = "None"
    /\ research_results = NoRecord
    /\ dispatched = << >>
    /\ outcomes = << >>
    /\ now = 0
    /\ respect_robots_txt = TRUE
    /\ requests_per_minute = RequestsPerMinute
    /\ delay_between_requests = DelayBetweenRequests
    /\ domain_timestamps = << >>
    /\ domain_locks = << >>
    /\ c_pc = [c \in Callers |-> "idle"]
    /\ c_url = [c \in Callers |-> NoUrl]
    /\ c_current_time = [c \in Callers |-> 0]
    /\ c_wake = [c \in Callers |-> 0]
    /\ c_verdict = [c \in Callers |-> "None"]
    /\ c_result = [c \in Callers |-> "None"]
    /\ c_calls = 0
    /\ c_call = [c \in Callers |-> 0]
    /\ recorded = << >>
    /\ g_pc = "idle"
    /\ g_url = NoUrl
    /\ g_respect = TRUE
    /\ g_rules = DefaultSiteRules
    /\ g_robots_allows = TRUE
    /\ g_robots_calls = 0
    /\ g_verdict = "None"
    /\ page = "None"
    /\ history = << >>
    /\ fetched = {}
    /\ b_pc = "idle"
    /\ b_url = NoUrl
    /\ r_now = 0
    /\ robot_parsers = << >>
    /\ cache_timestamps = << >>
    /\ r_pc = [c \in RobotsCallers |-> "idle"]
    /\ r_url = [c \in RobotsCallers |-> NoUrl]
    /\ r_current_time = [c \in RobotsCallers |-> 0]
    /\ r_last = NoAnswer
    /\ r_calls = 0
    /\ r_fetches = << >>
    /\ k_sources = {}
    /\ k_cache_enabled = FALSE
    /\ k_cache = << >>
    /\ k_pc = [q \in Queriers |-> "idle"]
    /\ k_args = [q \in Queriers |-> NoArgs]
    /\ k_last = NoReply
    /\ k_calls = 0
    /\ k_invoked = 0
    /\ k_inserted = << >>
    /\ k_hits = {}
    /\ p_pc = "idle"
    /\ p_query = NoText
    /\ p_reply = NoLlmReply
    /\ p_analysis = NoAnalysis
    /\ p_steps = << >>
    /\ p_error = "None"
    /\ p_llm_calls = 0
    /\ w_pc = "idle"
    /\ w_max_results = 1
    /\ search_results = << >>
    /\ w_k = 1
    /\ page_contents = << >>
    /\ w_visits = << >>
    /\ w_return = [status |-> "none"]
    /\ rep_pc = "idle"
    /\ rep_results = [query |-> << >>, status |-> "none", results |-> << >>]
    /\ rep_prompt_results = [query |-> << >>, status |-> "none", results |-> << >>]
    /\ rep_summarize_calls = 0
    /\ rep_report = << >>
    /\ rep_citations = << >>
    /\ n_pc = "idle"
    /\ n_url \in UrlStrings
    /\ n_once = << >>
    /\ n_twice = << >>
    /\ o_pc = [e \in {1, 2} |-> "idle"]
    /\ o_plan = [e \in {1, 2} |-> [query |-> "None", steps |-> 0]]
    /\ o_i = [e \in {1, 2} |-> 0]
    /\ results_by_id = [k \in {<<"hash", "qa">>, <<"hash", "qb">>} |-> 0]
    /\ records = [e \in {1, 2} |-> [query |-> "None", results |-> << >>, status |-> "None", completed_steps |-> 0, total_steps |-> 0]]
    /\ ks_pc = "idle"
    /\ ks_plan = << >>
    /\ ks_i = 0
    /\ ks_record = [results |-> << >>, status |-> "None", completed_steps |-> 0]
    /\ ks_args = [source |-> "None", query |-> << >>, max_results |-> 0]
    /\ ks_asked = << >>
    /\ vp_pc = [c \in {1, 2} |-> "idle"]
    /\ vp_url = [c \in {1, 2} |-> "None"]
    /\ vp_shown = "about:blank"
    /\ vp_got = [c \in {1, 2} |-> [title |-> "None", content |-> "None"]]
    /\ vp_record = [c \in {1, 2} |-> [status |-> "None"]]
    /\ vp_calls = 0
    /\ in_pc = "idle"
    /\ in_calls = 0
    /\ in_sessions_created = 0
    /\ in_source_inits = [s \in {"web_search", "wikipedia", "arxiv"} |-> 0]
    /\ in_replaced_open = 0
    /\ active_tasks = [q \in {1, 2} |-> [status |-> "absent", progress |-> 0, total_steps |-> 0]]
    /\ ui_results = [q \in {1, 2} |-> "absent"]
    /\ ui_pc = [q \in {1, 2} |-> "unused"]
    /\ ui_issued = {}
    /\ ui_response = [q \in {1, 2} |-> "None"]
    /\ ws_now = 0
    /\ ws_requests_per_minute = 10
    /\ ws_session = TRUE
    /\ ws_last_request_time = 0
    /\ ws_pc = [c \in {1, 2} |-> "idle"]
    /\ ws_wake = [c \in {1, 2} |-> 0]
    /\ ws_calls = 0
    /\ ws_last_issue = -1
    /\ ws_gaps = {}

\* a TaskExecutor on which no execution has started
InitOverlap ==
    /\ ex_pc = "idle"
    /\ plan = << >>
    /\ step_i = 0
    /\ browser_session = "None"
    /\ research_results = NoRecord
    /\ dispatched = << >>
    /\ outcomes = << >>
    /\ now = 0
    /\ respect_robots_txt = TRUE
    /\ requests_per_minute = RequestsPerMinute
    /\ delay_between_requests = DelayBetweenRequests
    /\ domain_timestamps = << >>
    /\ domain_locks = << >>
    /\ c_pc = [c \in Callers |-> "idle"]
    /\ c_url = [c \in Callers |-> NoUrl]
    /\ c_current_time = [c \in Callers |-> 0]
    /\ c_wake = [c \in Callers |-> 0]
    /\ c_verdict = [c \in Callers |-> "None"]
    /\ c_result = [c \in Callers |-> "None"]
    /\ c_calls = 0
    /\ c_call = [c \in Callers |-> 0]
    /\ recorded = << >>
    /\ g_pc = "idle"
    /\ g_url = NoUrl
    /\ g_respect = TRUE
    /\ g_rules = DefaultSiteRules
    /\ g_robots_allows = TRUE
    /\ g_robots_calls = 0
    /\ g_verdict = "None"
    /\ page = "None"
    /\ history = << >>
    /\ fetched = {}
    /\ b_pc = "idle"
    /\ b_url = NoUrl
    /\ r_now = 0
    /\ robot_parsers = << >>
    /\ cache_timestamps = << >>
    /\ r_pc = [c \in RobotsCallers |-> "idle"]
    /\ r_url = [c \in RobotsCallers |-> NoUrl]
    /\ r_current_time = [c \in RobotsCallers |-> 0]
    /\ r_last = NoAnswer
    /\ r_calls = 0
    /\ r_fetches = << >>
    /\ k_sources = {}
    /\ k_cache_enabled = FALSE
    /\ k_cache = << >>
    /\ k_pc = [q \in Queriers |-> "idle"]
    /\ k_args = [q \in Queriers |-> NoArgs]
    /\ k_last = NoReply
    /\ k_calls = 0
    /\ k_invoked = 0
    /\ k_inserted = << >>
    /\ k_hits = {}
    /\ p_pc = "idle"
    /\ p_query = NoText
    /\ p_reply = NoLlmReply
    /\ p_analysis = NoAnalysis
    /\ p_steps = << >>
    /\ p_error = "None"
    /\ p_llm_calls = 0
    /\ w_pc = "idle"
    /\ w_max_results = 1
    /\ search_results = << >>
    /\ w_k = 1
    /\ page_contents = << >>
    /\ w_visits = << >>
    /\ w_return = [status |-> "none"]
    /\ rep_pc = "idle"
    /\ rep_results = [query |-> << >>, status |-> "none", results |-> << >>]
    /\ rep_prompt_results = [query |-> << >>, status |-> "none", results |-> << >>]
    /\ rep_summarize_calls = 0
    /\ rep_report = << >>
    /\ rep_citations = << >>
    /\ n_pc = "idle"
    /\ n_url = << >>
    /\ n_once = << >>
    /\ n_twice = << >>
    /\ o_pc = [e \in {1, 2} |-> "idle"]
    /\ o_plan = [e \in {1, 2} |-> [query |-> "None", steps |-> 0]]
    /\ o_i = [e \in {1, 2} |-> 0]
    /\ results_by_id = [k \in {<<"hash", "qa">>, <<"hash", "qb">>} |-> 0]
    /\ records = [e \in {1, 2} |-> [query |-> "None", results |-> << >>, status |-> "None", completed_steps |-> 0, total_steps |-> 0]]
    /\ ks_pc = "idle"
    /\ ks_plan = << >>
    /\ ks_i = 0
    /\ ks_record = [results |-> << >>, status |-> "None", completed_steps |-> 0]
    /\ ks_args = [source |-> "None", query |-> << >>, max_results |-> 0]
    /\ ks_asked = << >>
    /\ vp_pc = [c \in {1, 2} |-> "idle"]
    /\ vp_url = [c \in {1, 2} |-> "None"]
    /\ vp_shown = "about:blank"
    /\ vp_got = [c \in {1, 2} |-> [title |-> "None", content |-> "None"]]
    /\ vp_record = [c \in {1, 2} |-> [status |-> "None"]]
    /\ vp_calls = 0
    /\ in_pc = "idle"
    /\ in_calls = 0
    /\ in_sessions_created = 0
    /\ in_source_inits = [s \in {"web_search", "wikipedia", "arxiv"} |-> 0]
    /\ in_replaced_open = 0
    /\ active_tasks = [q \in {1, 2} |-> [status |-> "absent", progress |-> 0, total_steps |-> 0]]
    /\ ui_results = [q \in {1, 2} |-> "absent"]
    /\ ui_pc = [q \in {1, 2} |-> "unused"]
    /\ ui_issued = {}
    /\ ui_response = [q \in {1, 2} |-> "None"]
    /\ ws_now = 0
    /\ ws_requests_per_minute = 10
    /\ ws_session = TRUE
    /\ ws_last_request_time = 0
    /\ ws_pc = [c \in {1, 2} |-> "idle"]
    /\ ws_wake = [c \in {1, 2} |-> 0]
    /\ ws_calls = 0
    /\ ws_last_issue = -1
    /\ ws_gaps = {}

\* a NavigationManager of any configuration, before the first call
InitNavFair ==
    /\ ex_pc = "idle"
    /\ plan = << >>
    /\ step_i = 0
    /\ browser_session = "None"
    /\ research_results = NoRecord
    /\ dispatched = << >>
    /\ outcomes = << >>
    /\ now = 0
    /\ respect_robots_txt \in BOOLEAN
    /\ requests_per_minute \in 0..RequestsPerMinute
    /\ delay_between_requests \in DelayConfigs
    /\ domain_timestamps = << >>
    /\ domain_locks = << >>
    /\ c_pc = [c \in Callers |-> "idle"]
    /\ c_url = [c \in Callers |-> NoUrl]
    /\ c_current_time = [c \in Callers |-> 0]
    /\ c_wake = [c \in Callers |-> 0]
    /\ c_verdict = [c \in Callers |-> "None"]
    /\ c_result = [c \in Callers |-> "None"]
    /\ c_calls = 0
    /\ c_call = [c \in Callers |-> 0]
    /\ recorded = << >>
    /\ g_pc = "idle"
    /\ g_url = NoUrl
    /\ g_respect = TRUE
    /\ g_rules = DefaultSiteRules
    /\ g_robots_allows = TRUE
    /\ g_robots_calls = 0
    /\ g_verdict = "None"
    /\ page = "None"
    /\ history = << >>
    /\ fetched = {}
    /\ b_pc = "idle"
    /\ b_url = NoUrl
    /\ r_now = 0
    /\ robot_parsers = << >>
    /\ cache_timestamps = << >>
    /\ r_pc = [c \in RobotsCallers |-> "idle"]
    /\ r_url = [c \in RobotsCallers |-> NoUrl]
    /\ r_current_time = [c \in RobotsCallers |-> 0]
    /\ r_last = NoAnswer
    /\ r_calls = 0
    /\ r_fetches = << >>
    /\ k_sources = {}
    /\ k_cache_enabled = FALSE
    /\ k_cache = << >>
    /\ k_pc = [q \in Queriers |-> "idle"]
    /\ k_args = [q \in Queriers |-> NoArgs]
    /\ k_last = NoReply
    /\ k_calls = 0
    /\ k_invoked = 0
    /\ k_inserted = << >>
    /\ k_hits = {}
    /\ p_pc = "idle"
    /\ p_query = NoText
    /\ p_reply = NoLlmReply
    /\ p_analysis = NoAnalysis
    /\ p_steps = << >>
    /\ p_error = "None"
    /\ p_llm_calls = 0
    /\ w_pc = "idle"
    /\ w_max_results = 1
    /\ search_results = << >>
    /\ w_k = 1
    /\ page_contents = << >>
    /\ w_visits = << >>
    /\ w_return = [status |-> "none"]
    /\ rep_pc = "idle"
    /\ rep_results = [query |-> << >>, status |-> "none", results |-> << >>]
    /\ rep_prompt_results = [query |-> << >>, status |-> "none", results |-> << >>]
    /\ rep_summarize_calls = 0
    /\ rep_report = << >>
    /\ rep_citations = << >>
    /\ n_pc = "idle"
    /\ n_url = << >>
    /\ n_once = << >>
    /\ n_twice = << >>
    /\ o_pc = [e \in {1, 2} |-> "idle"]
    /\ o_plan = [e \in {1, 2} |-> [query |-> "None", steps |-> 0]]
    /\ o_i = [e \in {1, 2} |-> 0]
    /\ results_by_id = [k \in {<<"hash", "qa">>, <<"hash", "qb">>} |-> 0]
    /\ records = [e \in {1, 2} |-> [query |-> "None", results |-> << >>, status |-> "None", completed_steps |-> 0, total_steps |-> 0]]
    /\ ks_pc = "idle"
    /\ ks_plan = << >>
    /\ ks_i = 0
    /\ ks_record = [results |-> << >>, status |-> "None", completed_steps |-> 0]
    /\ ks_args = [source |-> "None", query |-> << >>, max_results |-> 0]
    /\ ks_asked = << >>
    /\ vp_pc = [c \in {1, 2} |-> "idle"]
    /\ vp_url = [c \in {1, 2} |-> "None"]
    /\ vp_shown = "about:blank"
    /\ vp_got = [c \in {1, 2} |-> [title |-> "None", content |-> "None"]]
    /\ vp_record = [c \in {1, 2} |-> [status |-> "None"]]
    /\ vp_calls = 0
    /\ in_pc = "idle"
    /\ in_calls = 0
    /\ in_sessions_created = 0
    /\ in_source_inits = [s \in {"web_search", "wikipedia", "arxiv"} |-> 0]
    /\ in_replaced_open = 0
    /\ active_tasks = [q \in {1, 2} |-> [status |-> "absent", progress |-> 0, total_steps |-> 0]]
    /\ ui_results = [q \in {1, 2} |-> "absent"]
    /\ ui_pc = [q \in {1, 2} |-> "unused"]
    /\ ui_issued = {}
    /\ ui_response = [q \in {1, 2} |-> "None"]
    /\ ws_now = 0
    /\ ws_requests_per_minute = 10
    /\ ws_session = TRUE
    /\ ws_last_request_time = 0
    /\ ws_pc = [c \in {1, 2} |-> "idle"]
    /\ ws_wake = [c \in {1, 2} |-> 0]
    /\ ws_calls = 0
    /\ ws_last_issue = -1
    /\ ws_gaps = {}

\* a TaskExecutor whose KnowledgeSourceManager was initialised, before a plan is executed
InitKnowledge ==
    /\ ex_pc = "idle"
    /\ plan = << >>
    /\ step_i = 0
    /\ browser_session = "None"
    /\ research_results = NoRecord
    /\ dispatched = << >>
    /\ outcomes = << >>
    /\ now = 0
    /\ respect_robots_txt = TRUE
    /\ requests_per_minute = RequestsPerMinute
    /\ delay_between_requests = DelayBetweenRequests
    /\ domain_timestamps = << >>
    /\ domain_locks = << >>
    /\ c_pc = [c \in Callers |-> "idle"]
    /\ c_url = [c \in Callers |-> NoUrl]
    /\ c_current_time = [c \in Callers |-> 0]
    /\ c_wake = [c \in Callers |-> 0]
    /\ c_verdict = [c \in Callers |-> "None"]
    /\ c_result = [c \in Callers |-> "None"]
    /\ c_calls = 0
    /\ c_call = [c \in Callers |-> 0]
    /\ recorded = << >>
    /\ g_pc = "idle"
    /\ g_url = NoUrl
    /\ g_respect = TRUE
    /\ g_rules = DefaultSiteRules
    /\ g_robots_allows = TRUE
    /\ g_robots_calls = 0
    /\ g_verdict = "None"
    /\ page = "None"
    /\ history = << >>
    /\ fetched = {}
    /\ b_pc = "idle"
    /\ b_url = NoUrl
    /\ r_now = 0
    /\ robot_parsers = << >>
    /\ cache_timestamps = << >>
    /\ r_pc = [c \in RobotsCallers |-> "idle"]
    /\ r_url = [c \in RobotsCallers |-> NoUrl]
    /\ r_current_time = [c \in RobotsCallers |-> 0]
    /\ r_last = NoAnswer
    /\ r_calls = 0
    /\ r_fetches = << >>
    /\ k_sources \in InitialisedSets
    /\ k_cache_enabled \in BOOLEAN
    /\ k_cache = << >>
    /\ k_pc = [q \in Queriers |-> "idle"]
    /\ k_args = [q \in Queriers |-> NoArgs]
    /\ k_last = NoReply
    /\ k_calls = 0
    /\ k_invoked = 0
    /\ k_inserted = << >>
    /\ k_hits = {}
    /\ p_pc = "idle"
    /\ p_query = NoText
    /\ p_reply = NoLlmReply
    /\ p_analysis = NoAnalysis
    /\ p_steps = << >>
    /\ p_error = "None"
    /\ p_llm_calls = 0
    /\ w_pc = "idle"
    /\ w_max_results = 1
    /\ search_results = << >>
    /\ w_k = 1
    /\ page_contents = << >>
    /\ w_visits = << >>
    /\ w_return = [status |-> "none"]
    /\ rep_pc = "idle"
    /\ rep_results = [query |-> << >>, status |-> "none", results |-> << >>]
    /\ rep_prompt_results = [query |-> << >>, status |-> "none", results |-> << >>]
    /\ rep_summarize_calls = 0
    /\ rep_report = << >>
    /\ rep_citations = << >>
    /\ n_pc = "idle"
    /\ n_url = << >>
    /\ n_once = << >>
    /\ n_twice = << >>
    /\ o_pc = [e \in {1, 2} |-> "idle"]
    /\ o_plan = [e \in {1, 2} |-> [query |-> "None", steps |-> 0]]
    /\ o_i = [e \in {1, 2} |-> 0]
    /\ results_by_id = [k \in {<<"hash", "qa">>, <<"hash", "qb">>} |-> 0]
    /\ records = [e \in {1, 2} |-> [query |-> "None", results |-> << >>, status |-> "None", completed_steps |-> 0, total_steps |-> 0]]
    /\ ks_pc = "idle"
    /\ ks_plan = << >>
    /\ ks_i = 0
    /\ ks_record = [results |-> << >>, status |-> "None", completed_steps |-> 0]
    /\ ks_args = [source |-> "None", query |-> << >>, max_results |-> 0]
    /\ ks_asked = << >>
    /\ vp_pc = [c \in {1, 2} |-> "idle"]
    /\ vp_url = [c \in {1, 2} |-> "None"]
    /\ vp_shown = "about:blank"
    /\ vp_got = [c \in {1, 2} |-> [title |-> "None", content |-> "None"]]
    /\ vp_record = [c \in {1, 2} |-> [status |-> "None"]]
    /\ vp_calls = 0
    /\ in_pc = "idle"
    /\ in_calls = 0
    /\ in_sessions_created = 0
    /\ in_source_inits = [s \in {"web_search", "wikipedia", "arxiv"} |-> 0]
    /\ in_replaced_open = 0
    /\ active_tasks = [q \in {1, 2} |-> [status |-> "absent", progress |-> 0, total_steps |-> 0]]
    /\ ui_results = [q \in {1, 2} |-> "absent"]
    /\ ui_pc = [q \in {1, 2} |-> "unused"]
    /\ ui_issued = {}
    /\ ui_response = [q \in {1, 2} |-> "None"]
    /\ ws_now = 0
    /\ ws_requests_per_minute = 10
    /\ ws_session = TRUE
    /\ ws_last_request_time = 0
    /\ ws_pc = [c \in {1, 2} |-> "idle"]
    /\ ws_wake = [c \in {1, 2} |-> 0]
    /\ ws_calls = 0
    /\ ws_last_issue = -1
    /\ ws_gaps = {}

\* a TaskExecutor whose browser session is initialised, before a page is visited
InitVisits ==
    /\ ex_pc = "idle"
    /\ plan = << >>
    /\ step_i = 0
    /\ browser_session = "None"
    /\ research_results = NoRecord
    /\ dispatched = << >>
    /\ outcomes = << >>
    /\ now = 0
    /\ respect_robots_txt = TRUE
    /\ requests_per_minute = RequestsPerMinute
    /\ delay_between_requests = DelayBetweenRequests
    /\ domain_timestamps = << >>
    /\ domain_locks = << >>
    /\ c_pc = [c \in Callers |-> "idle"]
    /\ c_url = [c \in Callers |-> NoUrl]
    /\ c_current_time = [c \in Callers |-> 0]
    /\ c_wake = [c \in Callers |-> 0]
    /\ c_verdict = [c \in Callers |-> "None"]
    /\ c_result = [c \in Callers |-> "None"]
    /\ c_calls = 0
    /\ c_call = [c \in Callers |-> 0]
    /\ recorded = << >>
    /\ g_pc = "idle"
    /\ g_url = NoUrl
    /\ g_respect = TRUE
    /\ g_rules = DefaultSiteRules
    /\ g_robots_allows = TRUE
    /\ g_robots_calls = 0
    /\ g_verdict = "None"
    /\ page = "None"
    /\ history = << >>
    /\ fetched = {}
    /\ b_pc = "idle"
    /\ b_url = NoUrl
    /\ r_now = 0
    /\ robot_parsers = << >>
    /\ cache_timestamps = << >>
    /\ r_pc = [c \in RobotsCallers |-> "idle"]
    /\ r_url = [c \in RobotsCallers |-> NoUrl]
    /\ r_current_time = [c \in RobotsCallers |-> 0]
    /\ r_last = NoAnswer
    /\ r_calls = 0
    /\ r_fetches = << >>
    /\ k_sources = {}
    /\ k_cache_enabled = FALSE
    /\ k_cache = << >>
    /\ k_pc = [q \in Queriers |-> "idle"]
    /\ k_args = [q \in Queriers |-> NoArgs]
    /\ k_last = NoReply
    /\ k_calls = 0
    /\ k_invoked = 0
    /\ k_inserted = << >>
    /\ k_hits = {}
    /\ p_pc = "idle"
    /\ p_query = NoText
    /\ p_reply = NoLlmReply
    /\ p_analysis = NoAnalysis
    /\ p_steps = << >>
    /\ p_error = "None"
    /\ p_llm_calls = 0
    /\ w_pc = "idle"
    /\ w_max_results = 1
    /\ search_results = << >>
    /\ w_k = 1
    /\ page_contents = << >>
    /\ w_visits = << >>
    /\ w_return = [status |-> "none"]
    /\ rep_pc = "idle"
    /\ rep_results = [query |-> << >>, status |-> "none", results |-> << >>]
    /\ rep_prompt_results = [query |-> << >>, status |-> "none", results |-> << >>]
    /\ rep_summarize_calls = 0
    /\ rep_report = << >>
    /\ rep_citations = << >>
    /\ n_pc = "idle"
    /\ n_url = << >>
    /\ n_once = << >>
    /\ n_twice = << >>
    /\ o_pc = [e \in {1, 2} |-> "idle"]
    /\ o_plan = [e \in {1, 2} |-> [query |-> "None", steps |-> 0]]
    /\ o_i = [e \in {1, 2} |-> 0]
    /\ results_by_id = [k \in {<<"hash", "qa">>, <<"hash", "qb">>} |-> 0]
    /\ records = [e \in {1, 2} |-> [query |-> "None", results |-> << >>, status |-> "None", completed_steps |-> 0, total_steps |-> 0]]
    /\ ks_pc = "idle"
    /\ ks_plan = << >>
    /\ ks_i = 0
    /\ ks_record = [results |-> << >>, status |-> "None", completed_steps |-> 0]
    /\ ks_args = [source |-> "None", query |-> << >>, max_results |-> 0]
    /\ ks_asked = << >>
    /\ vp_pc = [c \in {1, 2} |-> "idle"]
    /\ vp_url = [c \in {1, 2} |-> "None"]
    /\ vp_shown = "about:blank"
    /\ vp_got = [c \in {1, 2} |-> [title |-> "None", content |-> "None"]]
    /\ vp_record = [c \in {1, 2} |-> [status |-> "None"]]
    /\ vp_calls = 0
    /\ in_pc = "idle"
    /\ in_calls = 0
    /\ in_sessions_created = 0
    /\ in_source_inits = [s \in {"web_search", "wikipedia", "arxiv"} |-> 0]
    /\ in_replaced_open = 0
    /\ active_tasks = [q \in {1, 2} |-> [status |-> "absent", progress |-> 0, total_steps |-> 0]]
    /\ ui_results = [q \in {1, 2} |-> "absent"]
    /\ ui_pc = [q \in {1, 2} |-> "unused"]
    /\ ui_issued = {}
    /\ ui_response = [q \in {1, 2} |-> "None"]
    /\ ws_now = 0
    /\ ws_requests_per_minute = 10
    /\ ws_session = TRUE
    /\ ws_last_request_time = 0
    /\ ws_pc = [c \in {1, 2} |-> "idle"]
    /\ ws_wake = [c \in {1, 2} |-> 0]
    /\ ws_calls = 0
    /\ ws_last_issue = -1
    /\ ws_gaps = {}

\* a TaskExecutor as its constructor leaves it: no browser session, no source registered
InitSessions ==
    /\ ex_pc = "idle"
    /\ plan = << >>
    /\ step_i = 0
    /\ browser_session = "None"
    /\ research_results = NoRecord
    /\ dispatched = << >>
    /\ outcomes = << >>
    /\ now = 0
    /\ respect_robots_txt = TRUE
    /\ requests_per_minute = RequestsPerMinute
    /\ delay_between_requests = DelayBetweenRequests
    /\ domain_timestamps = << >>
    /\ domain_locks = << >>
    /\ c_pc = [c \in Callers |-> "idle"]
    /\ c_url = [c \in Callers |-> NoUrl]
    /\ c_current_time = [c \in Callers |-> 0]
    /\ c_wake = [c \in Callers |-> 0]
    /\ c_verdict = [c \in Callers |-> "None"]
    /\ c_result = [c \in Callers |-> "None"]
    /\ c_calls = 0
    /\ c_call = [c \in Callers |-> 0]
    /\ recorded = << >>
    /\ g_pc = "idle"
    /\ g_url = NoUrl
    /\ g_respect = TRUE
    /\ g_rules = DefaultSiteRules
    /\ g_robots_allows = TRUE
    /\ g_robots_calls = 0
    /\ g_verdict = "None"
    /\ page = "None"
    /\ history = << >>
    /\ fetched = {}
    /\ b_pc = "idle"
    /\ b_url = NoUrl
    /\ r_now = 0
    /\ robot_parsers = << >>
    /\ cache_timestamps = << >>
    /\ r_pc = [c \in RobotsCallers |-> "idle"]
    /\ r_url = [c \in RobotsCallers |-> NoUrl]
    /\ r_current_time = [c \in RobotsCallers |-> 0]
    /\ r_last = NoAnswer
    /\ r_calls = 0
    /\ r_fetches = << >>
    /\ k_sources = {}
    /\ k_cache_enabled = FALSE
    /\ k_cache = << >>
    /\ k_pc = [q \in Queriers |-> "idle"]
    /\ k_args = [q \in Queriers |-> NoArgs]
    /\ k_last = NoReply
    /\ k_calls = 0
    /\ k_invoked = 0
    /\ k_inserted = << >>
    /\ k_hits = {}
    /\ p_pc = "idle"
    /\ p_query = NoText
    /\ p_reply = NoLlmReply
    /\ p_analysis = NoAnalysis
    /\ p_steps = << >>
    /\ p_error = "None"
    /\ p_llm_calls = 0
    /\ w_pc = "idle"
    /\ w_max_results = 1
    /\ search_results = << >>
    /\ w_k = 1
    /\ page_contents = << >>
    /\ w_visits = << >>
    /\ w_return = [status |-> "none"]
    /\ rep_pc = "idle"
    /\ rep_results = [query |-> << >>, status |-> "none", results |-> << >>]
    /\ rep_prompt_results = [query |-> << >>, status |-> "none", results |-> << >>]
    /\ rep_summarize_calls = 0
    /\ rep_report = << >>
    /\ rep_citations = << >>
    /\ n_pc = "idle"
    /\ n_url = << >>
    /\ n_once = << >>
    /\ n_twice = << >>
    /\ o_pc = [e \in {1, 2} |-> "idle"]
    /\ o_plan = [e \in {1, 2} |-> [query |-> "None", steps |-> 0]]
    /\ o_i = [e \in {1, 2} |-> 0]
    /\ results_by_id = [k \in {<<"hash", "qa">>, <<"hash", "qb">>} |-> 0]
    /\ records = [e \in {1, 2} |-> [query |-> "None", results |-> << >>, status |-> "None", completed_steps |-> 0, total_steps |-> 0]]
    /\ ks_pc = "idle"
    /\ ks_plan = << >>
    /\ ks_i = 0
    /\ ks_record = [results |-> << >>, status |-> "None", completed_steps |-> 0]
    /\ ks_args = [source |-> "None", query |-> << >>, max_results |-> 0]
    /\ ks_asked = << >>
    /\ vp_pc = [c \in {1, 2} |-> "idle"]
    /\ vp_url = [c \in {1, 2} |-> "None"]
    /\ vp_shown = "about:blank"
    /\ vp_got = [c \in {1, 2} |-> [title |-> "None", content |-> "None"]]
    /\ vp_record = [c \in {1, 2} |-> [status |-> "None"]]
    /\ vp_calls = 0
    /\ in_pc = "idle"
    /\ in_calls = 0
    /\ in_sessions_created = 0
    /\ in_source_inits = [s \in {"web_search", "wikipedia", "arxiv"} |-> 0]
    /\ in_replaced_open = 0
    /\ active_tasks = [q \in {1, 2} |-> [status |-> "absent", progress |-> 0, total_steps |-> 0]]
    /\ ui_results = [q \in {1, 2} |-> "absent"]
    /\ ui_pc = [q \in {1, 2} |-> "unused"]
    /\ ui_issued = {}
    /\ ui_response = [q \in {1, 2} |-> "None"]
    /\ ws_now = 0
    /\ ws_requests_per_minute = 10
    /\ ws_session = TRUE
    /\ ws_last_request_time = 0
    /\ ws_pc = [c \in {1, 2} |-> "idle"]
    /\ ws_wake = [c \in {1, 2} |-> 0]
    /\ ws_calls = 0
    /\ ws_last_issue = -1
    /\ ws_gaps = {}

\* a WebInterface before the first request
InitWebInterface ==
    /\ ex_pc = "idle"
    /\ plan = << >>
    /\ step_i = 0
    /\ browser_session = "None"
    /\ research_results = NoRecord
    /\ dispatched = << >>
    /\ outcomes = << >>
    /\ now = 0
    /\ respect_robots_txt = TRUE
    /\ requests_per_minute = RequestsPerMinute
    /\ delay_between_requests = DelayBetweenRequests
    /\ domain_timestamps = << >>
    /\ domain_locks = << >>
    /\ c_pc = [c \in Callers |-> "idle"]
    /\ c_url = [c \in Callers |-> NoUrl]
    /\ c_current_time = [c \in Callers |-> 0]
    /\ c_wake = [c \in Callers |-> 0]
    /\ c_verdict = [c \in Callers |-> "None"]
    /\ c_result = [c \in Callers |-> "None"]
    /\ c_calls = 0
    /\ c_call = [c \in Callers |-> 0]
    /\ recorded = << >>
    /\ g_pc = "idle"
    /\ g_url = NoUrl
    /\ g_respect = TRUE
    /\ g_rules = DefaultSiteRules
    /\ g_robots_allows = TRUE
    /\ g_robots_calls = 0
    /\ g_verdict = "None"
    /\ page = "None"
    /\ history = << >>
    /\ fetched = {}
    /\ b_pc = "idle"
    /\ b_url = NoUrl
    /\ r_now = 0
    /\ robot_parsers = << >>
    /\ cache_timestamps = << >>
    /\ r_pc = [c \in RobotsCallers |-> "idle"]
    /\ r_url = [c \in RobotsCallers |-> NoUrl]
    /\ r_current_time = [c \in RobotsCallers |-> 0]
    /\ r_last = NoAnswer
    /\ r_calls = 0
    /\ r_fetches = << >>
    /\ k_sources = {}
    /\ k_cache_enabled = FALSE
    /\ k_cache = << >>
    /\ k_pc = [q \in Queriers |-> "idle"]
    /\ k_args = [q \in Queriers |-> NoArgs]
    /\ k_last = NoReply
    /\ k_calls = 0
    /\ k_invoked = 0
    /\ k_inserted = << >>
    /\ k_hits = {}
    /\ p_pc = "idle"
    /\ p_query = NoText
    /\ p_reply = NoLlmReply
    /\ p_analysis = NoAnalysis
    /\ p_steps = << >>
    /\ p_error = "None"
    /\ p_llm_calls = 0
    /\ w_pc = "idle"
    /\ w_max_results = 1
    /\ search_results = << >>
    /\ w_k = 1
    /\ page_contents = << >>
    /\ w_visits = << >>
    /\ w_return = [status |-> "none"]
    /\ rep_pc = "idle"
    /\ rep_results = [query |-> << >>, status |-> "none", results |-> << >>]
    /\ rep_prompt_results = [query |-> << >>, status |-> "none", results |-> << >>]
    /\ rep_summarize_calls = 0
    /\ rep_report = << >>
    /\ rep_citations = << >>
    /\ n_pc = "idle"
    /\ n_url = << >>
    /\ n_once = << >>
    /\ n_twice = << >>
    /\ o_pc = [e \in {1, 2} |-> "idle"]
    /\ o_plan = [e \in {1, 2} |-> [query |-> "None", steps |-> 0]]
    /\ o_i = [e \in {1, 2} |-> 0]
    /\ results_by_id = [k \in {<<"hash", "qa">>, <<"hash", "qb">>} |-> 0]
    /\ records = [e \in {1, 2} |-> [query |-> "None", results |-> << >>, status |-> "None", completed_steps |-> 0, total_steps |-> 0]]
    /\ ks_pc = "idle"
    /\ ks_plan = << >>
    /\ ks_i = 0
    /\ ks_record = [results |-> << >>, status |-> "None", completed_steps |-> 0]
    /\ ks_args = [source |-> "None", query |-> << >>, max_results |-> 0]
    /\ ks_asked = << >>
    /\ vp_pc = [c \in {1, 2} |-> "idle"]
    /\ vp_url = [c \in {1, 2} |-> "None"]
    /\ vp_shown = "about:blank"
    /\ vp_got = [c \in {1, 2} |-> [title |-> "None", content |-> "None"]]
    /\ vp_record = [c \in {1, 2} |-> [status |-> "None"]]
    /\ vp_calls = 0
    /\ in_pc = "idle"
    /\ in_calls = 0
    /\ in_sessions_created = 0
    /\ in_source_inits = [s \in {"web_search", "wikipedia", "arxiv"} |-> 0]
    /\ in_replaced_open = 0
    /\ active_tasks = [q \in {1, 2} |-> [status |-> "absent", progress |-> 0, total_steps |-> 0]]
    /\ ui_results = [q \in {1, 2} |-> "absent"]
    /\ ui_pc = [q \in {1, 2} |-> "unused"]
    /\ ui_issued = {}
    /\ ui_response = [q \in {1, 2} |-> "None"]
    /\ ws_now = 0
    /\ ws_requests_per_minute = 10
    /\ ws_session = TRUE
    /\ ws_last_request_time = 0
    /\ ws_pc = [c \in {1, 2} |-> "idle"]
    /\ ws_wake = [c \in {1, 2} |-> 0]
    /\ ws_calls = 0
    /\ ws_last_issue = -1
    /\ ws_gaps = {}

\* a Web_searchSource after construction, with or without a session; the clock is past the first minute
InitSearch ==
    /\ ex_pc = "idle"
    /\ plan = << >>
    /\ step_i = 0
    /\ browser_session = "None"
    /\ research_results = NoRecord
    /\ dispatched = << >>
    /\ outcomes = << >>
    /\ now = 0
    /\ respect_robots_txt = TRUE
    /\ requests_per_minute = RequestsPerMinute
    /\ delay_between_requests = DelayBetweenRequests
    /\ domain_timestamps = << >>
    /\ domain_locks = << >>
    /\ c_pc = [c \in Callers |-> "idle"]
    /\ c_url = [c \in Callers |-> NoUrl]
    /\ c_current_time = [c \in Callers |-> 0]
    /\ c_wake = [c \in Callers |-> 0]
    /\ c_verdict = [c \in Callers |-> "None"]
    /\ c_result = [c \in Callers |-> "None"]
    /\ c_calls = 0
    /\ c_call = [c \in Callers |-> 0]
    /\ recorded = << >>
    /\ g_pc = "idle"
    /\ g_url = NoUrl
    /\ g_respect = TRUE
    /\ g_rules = DefaultSiteRules
    /\ g_robots_allows = TRUE
    /\ g_robots_calls = 0
    /\ g_verdict = "None"
    /\ page = "None"
    /\ history = << >>
    /\ fetched = {}
    /\ b_pc = "idle"
    /\ b_url = NoUrl
    /\ r_now = 0
    /\ robot_parsers = << >>
    /\ cache_timestamps = << >>
    /\ r_pc = [c \in RobotsCallers |-> "idle"]
    /\ r_url = [c \in RobotsCallers |-> NoUrl]
    /\ r_current_time = [c \in RobotsCallers |-> 0]
    /\ r_last = NoAnswer
    /\ r_calls = 0
    /\ r_fetches = << >>
    /\ k_sources = {}
    /\ k_cache_enabled = FALSE
    /\ k_cache = << >>
    /\ k_pc = [q \in Queriers |-> "idle"]
    /\ k_args = [q \in Queriers |-> NoArgs]
    /\ k_last = NoReply
    /\ k_calls = 0
    /\ k_invoked = 0
    /\ k_inserted = << >>
    /\ k_hits = {}
    /\ p_pc = "idle"
    /\ p_query = NoText
    /\ p_reply = NoLlmReply
    /\ p_analysis = NoAnalysis
    /\ p_steps = << >>
    /\ p_error = "None"
    /\ p_llm_calls = 0
    /\ w_pc = "idle"
    /\ w_max_results = 1
    /\ search_results = << >>
    /\ w_k = 1
    /\ page_contents = << >>
    /\ w_visits = << >>
    /\ w_return = [status |-> "none"]
    /\ rep_pc = "idle"
    /\ rep_results = [query |-> << >>, status |-> "none", results |-> << >>]
    /\ rep_prompt_results = [query |-> << >>, status |-> "none", results |-> << >>]
    /\ rep_summarize_calls = 0
    /\ rep_report = << >>
    /\ rep_citations = << >>
    /\ n_pc = "idle"
    /\ n_url = << >>
    /\ n_once = << >>
    /\ n_twice = << >>
    /\ o_pc = [e \in {1, 2} |-> "idle"]
    /\ o_plan = [e \in {1, 2} |-> [query |-> "None", steps |-> 0]]
    /\ o_i = [e \in {1, 2} |-> 0]
    /\ results_by_id = [k \in {<<"hash", "qa">>, <<"hash", "qb">>} |-> 0]
    /\ records = [e \in {1, 2} |-> [query |-> "None", results |-> << >>, status |-> "None", completed_steps |-> 0, total_steps |-> 0]]
    /\ ks_pc = "idle"
    /\ ks_plan = << >>
    /\ ks_i = 0
    /\ ks_record = [results |-> << >>, status |-> "None", completed_steps |-> 0]
    /\ ks_args = [source |-> "None", query |-> << >>, max_results |-> 0]
    /\ ks_asked = << >>
    /\ vp_pc = [c \in {1, 2} |-> "idle"]
    /\ vp_url = [c \in {1, 2} |-> "None"]
    /\ vp_shown = "about:blank"
    /\ vp_got = [c \in {1, 2} |-> [title |-> "None", content |-> "None"]]
    /\ vp_record = [c \in {1, 2} |-> [status |-> "None"]]
    /\ vp_calls = 0
    /\ in_pc = "idle"
    /\ in_calls = 0
    /\ in_sessions_created = 0
    /\ in_source_inits = [s \in {"web_search", "wikipedia", "arxiv"} |-> 0]
    /\ in_replaced_open = 0
    /\ active_tasks = [q \in {1, 2} |-> [status |-> "absent", progress |-> 0, total_steps |-> 0]]
    /\ ui_results = [q \in {1, 2} |-> "absent"]
    /\ ui_pc = [q \in {1, 2} |-> "unused"]
    /\ ui_issued = {}
    /\ ui_response = [q \in {1, 2} |-> "None"]
    /\ ws_now = SecondsPerMinute
    /\ ws_requests_per_minute \in SearchRates
    /\ ws_session \in BOOLEAN
    /\ ws_last_request_time = 0
    /\ ws_pc = [c \in {1, 2} |-> "idle"]
    /\ ws_wake = [c \in {1, 2} |-> 0]
    /\ ws_calls = 0
    /\ ws_last_issue = -1
    /\ ws_gaps = {}

ExecNext ==
    \/ \E p \in Plans : Start(p) /\ UNCHANGED <<navVars, gateVars, browVars, robVars, regVars, planVars, webVars, repVars, normVars, ovVars, ksVars, vpVars, inVars, uiVars, wsVars>>
    \/ InitializeOk /\ UNCHANGED <<navVars, gateVars, browVars, robVars, regVars, planVars, webVars, repVars, normVars, ovVars, ksVars, vpVars, inVars, uiVars, wsVars>>
    \/ InitializeFail /\ UNCHANGED <<navVars, gateVars, browVars, robVars, regVars, planVars, webVars, repVars, normVars, ovVars, ksVars, vpVars, inVars, uiVars, wsVars>>
    \/ Dispatch /\ UNCHANGED <<navVars, gateVars, browVars, robVars, regVars, planVars, webVars, repVars, normVars, ovVars, ksVars, vpVars, inVars, uiVars, wsVars>>
    \/ \E o \in {"ok"} \cup ErrMsgs : StepFinish(o) /\ UNCHANGED <<navVars, gateVars, browVars, robVars, regVars, planVars, webVars, repVars, normVars, ovVars, ksVars, vpVars, inVars, uiVars, wsVars>>
    \/ SleepDone /\ UNCHANGED <<navVars, gateVars, browVars, robVars, regVars, planVars, webVars, repVars, normVars, ovVars, ksVars, vpVars, inVars, uiVars, wsVars>>

NavNext ==
    \/ \E c \in Callers, u \in NavURLs :
          PrepareNavigation(c, u) /\ UNCHANGED <<execVars, gateVars, browVars, robVars, regVars, planVars, webVars, repVars, normVars, ovVars, ksVars, vpVars, inVars, uiVars, wsVars>>
    \/ \E c \in Callers, a \in BOOLEAN :
          RobotsAnswer(c, a) /\ UNCHANGED <<execVars, gateVars, browVars, robVars, regVars, planVars, webVars, repVars, normVars, ovVars, ksVars, vpVars, inVars, uiVars, wsVars>>
    \/ \E c \in Callers : LockGranted(c) /\ UNCHANGED <<execVars, gateVars, browVars, robVars, regVars, planVars, webVars, repVars, normVars, ovVars, ksVars, vpVars, inVars, uiVars, wsVars>>
    \/ \E c \in Callers : WakeRpm(c) /\ UNCHANGED <<execVars, gateVars, browVars, robVars, regVars, planVars, webVars, repVars, normVars, ovVars, ksVars, vpVars, inVars, uiVars, wsVars>>
    \/ \E c \in Callers : WakeDelay(c) /\ UNCHANGED <<execVars, gateVars, browVars, robVars, regVars, planVars, webVars, repVars, normVars, ovVars, ksVars, vpVars, inVars, uiVars, wsVars>>
    \/ Tick /\ UNCHANGED <<execVars, gateVars, browVars, robVars, regVars, planVars, webVars, repVars, normVars, ovVars, ksVars, vpVars, inVars, uiVars, wsVars>>

GateNext ==
    \/ CanNavigateCall /\ UNCHANGED <<execVars, navVars, browVars, robVars, regVars, planVars, webVars, repVars, normVars, ovVars, ksVars, vpVars, inVars, uiVars, wsVars>>
    \/ CanNavigateRobots /\ UNCHANGED <<execVars, navVars, browVars, robVars, regVars, planVars, webVars, repVars, normVars, ovVars, ksVars, vpVars, inVars, uiVars, wsVars>>

BrowNext ==
    \/ \E u \in URLs : VisitPage(u) /\ UNCHANGED <<execVars, navVars, gateVars, robVars, regVars, planVars, webVars, repVars, normVars, ovVars, ksVars, vpVars, inVars, uiVars, wsVars>>
    \/ \E e \in Engines : Search(e) /\ UNCHANGED <<execVars, navVars, gateVars, robVars, regVars, planVars, webVars, repVars, normVars, ovVars, ksVars, vpVars, inVars, uiVars, wsVars>>
    \/ BrowserInitialized /\ UNCHANGED <<execVars, navVars, gateVars, robVars, regVars, planVars, webVars, repVars, normVars, ovVars, ksVars, vpVars, inVars, uiVars, wsVars>>
    \/ BrowserInitFailed /\ UNCHANGED <<execVars, navVars, gateVars, robVars, regVars, planVars, webVars, repVars, normVars, ovVars, ksVars, vpVars, inVars, uiVars, wsVars>>
    \/ GotoDone /\ UNCHANGED <<execVars, navVars, gateVars, robVars, regVars, planVars, webVars, repVars, normVars, ovVars, ksVars, vpVars, inVars, uiVars, wsVars>>

RobotsNext ==
    \/ \E c \in RobotsCallers, u \in RobotsURLs :
          CanFetchCall(c, u) /\ UNCHANGED <<execVars, navVars, gateVars, browVars, regVars, planVars, webVars, repVars, normVars, ovVars, ksVars, vpVars, inVars, uiVars, wsVars>>
    \/ \E c \in RobotsCallers, o \in FetchOutcomes :
          FetchDone(c, o) /\ UNCHANGED <<execVars, navVars, gateVars, browVars, regVars, planVars, webVars, repVars, normVars, ovVars, ksVars, vpVars, inVars, uiVars, wsVars>>
    \/ RobotsTick /\ UNCHANGED <<execVars, navVars, gateVars, browVars, regVars, planVars, webVars, repVars, normVars, ovVars, ksVars, vpVars, inVars, uiVars, wsVars>>

RegistryNext ==
    \/ \E q \in Queriers, a \in QueryArgs :
          QueryCall(q, a) /\ UNCHANGED <<execVars, navVars, gateVars, browVars, robVars, planVars, webVars, repVars, normVars, ovVars, ksVars, vpVars, inVars, uiVars, wsVars>>
    \/ \E q \in Queriers, r \in UNION {SourceAnswers(a) : a \in QueryArgs} :
          QueryAnswered(q, r) /\ UNCHANGED <<execVars, navVars, gateVars, browVars, robVars, planVars, webVars, repVars, normVars, ovVars, ksVars, vpVars, inVars, uiVars, wsVars>>
    \/ \E q \in Queriers :
          QueryRaised(q) /\ UNCHANGED <<execVars, navVars, gateVars, browVars, robVars, planVars, webVars, repVars, normVars, ovVars, ksVars, vpVars, inVars, uiVars, wsVars>>

PlanNext ==
    \/ CreatePlan(UserQuery)
          /\ UNCHANGED <<execVars, navVars, gateVars, browVars, robVars, regVars, webVars, repVars, normVars, ovVars, ksVars, vpVars, inVars, uiVars, wsVars>>
    \/ LlmAnswered /\ UNCHANGED <<execVars, navVars, gateVars, browVars, robVars, regVars, webVars, repVars, normVars, ovVars, ksVars, vpVars, inVars, uiVars, wsVars>>
    \/ ExecutePlanned /\ UNCHANGED <<navVars, gateVars, browVars, robVars, regVars, webVars, repVars, normVars, ovVars, ksVars, vpVars, inVars, uiVars, wsVars>>
    \/ InitializeOk /\ UNCHANGED <<navVars, gateVars, browVars, robVars, regVars, planVars, webVars, repVars, normVars, ovVars, ksVars, vpVars, inVars, uiVars, wsVars>>
    \/ InitializeFail /\ UNCHANGED <<navVars, gateVars, browVars, robVars, regVars, planVars, webVars, repVars, normVars, ovVars, ksVars, vpVars, inVars, uiVars, wsVars>>
    \/ Dispatch /\ UNCHANGED <<navVars, gateVars, browVars, robVars, regVars, planVars, webVars, repVars, normVars, ovVars, ksVars, vpVars, inVars, uiVars, wsVars>>
    \/ \E o \in {"ok", "boom"} :
          StepFinish(o) /\ UNCHANGED <<navVars, gateVars, browVars, robVars, regVars, planVars, webVars, repVars, normVars, ovVars, ksVars, vpVars, inVars, uiVars, wsVars>>
    \/ SleepDone /\ UNCHANGED <<navVars, gateVars, browVars, robVars, regVars, planVars, webVars, repVars, normVars, ovVars, ksVars, vpVars, inVars, uiVars, wsVars>>

\* one web_search step of the executor
WebNext ==
    \/ \E m \in 1..MaxFound : WebSearchCall(m) /\ UNCHANGED <<execVars, navVars, gateVars, browVars, robVars, regVars, planVars, repVars, normVars, ovVars, ksVars, vpVars, inVars, uiVars, wsVars>>
    \/ \E found \in SearchResultLists : SearchReturned(found) /\ UNCHANGED <<execVars, navVars, gateVars, browVars, robVars, regVars, planVars, repVars, normVars, ovVars, ksVars, vpVars, inVars, uiVars, wsVars>>
    \/ SearchRaised /\ UNCHANGED <<execVars, navVars, gateVars, browVars, robVars, regVars, planVars, repVars, normVars, ovVars, ksVars, vpVars, inVars, uiVars, wsVars>>
    \/ \E o \in VisitOutcomes : VisitDone(o) /\ UNCHANGED <<execVars, navVars, gateVars, browVars, robVars, regVars, planVars, repVars, normVars, ovVars, ksVars, vpVars, inVars, uiVars, wsVars>>
    \/ WebSearchReturn /\ UNCHANGED <<execVars, navVars, gateVars, browVars, robVars, regVars, planVars, repVars, normVars, ovVars, ksVars, vpVars, inVars, uiVars, wsVars>>
    \/ WebSearchReset /\ UNCHANGED <<execVars, navVars, gateVars, browVars, robVars, regVars, planVars, repVars, normVars, ovVars, ksVars, vpVars, inVars, uiVars, wsVars>>

\* one call of the report generator
ReportNext ==
    \/ \E rr \in ResearchResultsRecords : GenerateReport(rr) /\ UNCHANGED <<execVars, navVars, gateVars, browVars, robVars, regVars, planVars, webVars, normVars, ovVars, ksVars, vpVars, inVars, uiVars, wsVars>>
    \/ \E s \in Summaries : Summarized(s) /\ UNCHANGED <<execVars, navVars, gateVars, browVars, robVars, regVars, planVars, webVars, normVars, ovVars, ksVars, vpVars, inVars, uiVars, wsVars>>
    \/ ReportAnswered /\ UNCHANGED <<execVars, navVars, gateVars, browVars, robVars, regVars, planVars, webVars, normVars, ovVars, ksVars, vpVars, inVars, uiVars, wsVars>>
    \/ \E rr \in ResearchResultsRecords : FormatCitationsCall(rr) /\ UNCHANGED <<execVars, navVars, gateVars, browVars, robVars, regVars, planVars, webVars, normVars, ovVars, ksVars, vpVars, inVars, uiVars, wsVars>>

\* normalize_url applied to a string and then to its own result
NormalizeNext ==
    \/ NormalizeCall /\ UNCHANGED <<execVars, navVars, gateVars, browVars, robVars, regVars, planVars, webVars, repVars, ovVars, ksVars, vpVars, inVars, uiVars, wsVars>>
    \/ NormalizeAgain /\ UNCHANGED <<execVars, navVars, gateVars, browVars, robVars, regVars, planVars, webVars, repVars, ovVars, ksVars, vpVars, inVars, uiVars, wsVars>>

\* two executions on one executor, interleaved at their awaits
OverlapNext ==
    \/ \E e \in Executions, p \in OverlapPlans : OverlapStart(e, p) /\ UNCHANGED <<execVars, navVars, gateVars, browVars, robVars, regVars, planVars, webVars, repVars, normVars, ksVars, vpVars, inVars, uiVars, wsVars>>
    \/ \E e \in Executions : OverlapReset(e) /\ UNCHANGED <<execVars, navVars, gateVars, browVars, robVars, regVars, planVars, webVars, repVars, normVars, ksVars, vpVars, inVars, uiVars, wsVars>>
    \/ \E e \in Executions : OverlapStepDone(e) /\ UNCHANGED <<execVars, navVars, gateVars, browVars, robVars, regVars, planVars, webVars, repVars, normVars, ksVars, vpVars, inVars, uiVars, wsVars>>
    \/ \E e \in Executions : OverlapSleepDone(e) /\ UNCHANGED <<execVars, navVars, gateVars, browVars, robVars, regVars, planVars, webVars, repVars, normVars, ksVars, vpVars, inVars, uiVars, wsVars>>

\* the rate limiter under the event loop's scheduling
NavFairNext ==
    \/ \E c \in Callers, u \in NavURLs :
          PrepareNavigation(c, u) /\ UNCHANGED <<execVars, gateVars, browVars, robVars, regVars, planVars, webVars, repVars, normVars, ovVars, ksVars, vpVars, inVars, uiVars, wsVars>>
    \/ \E c \in Callers, a \in BOOLEAN :
          RobotsAnswer(c, a) /\ UNCHANGED <<execVars, gateVars, browVars, robVars, regVars, planVars, webVars, repVars, normVars, ovVars, ksVars, vpVars, inVars, uiVars, wsVars>>
    \/ \E c \in Callers : LockGranted(c) /\ UNCHANGED <<execVars, gateVars, browVars, robVars, regVars, planVars, webVars, repVars, normVars, ovVars, ksVars, vpVars, inVars, uiVars, wsVars>>
    \/ \E c \in Callers : WakeRpm(c) /\ UNCHANGED <<execVars, gateVars, browVars, robVars, regVars, planVars, webVars, repVars, normVars, ovVars, ksVars, vpVars, inVars, uiVars, wsVars>>
    \/ \E c \in Callers : WakeDelay(c) /\ UNCHANGED <<execVars, gateVars, browVars, robVars, regVars, planVars, webVars, repVars, normVars, ovVars, ksVars, vpVars, inVars, uiVars, wsVars>>
    \/ TimePasses /\ UNCHANGED <<execVars, gateVars, browVars, robVars, regVars, planVars, webVars, repVars, normVars, ovVars, ksVars, vpVars, inVars, uiVars, wsVars>>

\* a plan of knowledge_source steps executed against the source manager
KnowledgeNext ==
    \/ \E p \in KnowledgePlans : KnowledgePlanStart(p) /\ UNCHANGED <<execVars, navVars, gateVars, browVars, robVars, planVars, webVars, repVars, normVars, ovVars, vpVars, inVars, uiVars, wsVars>>
    \/ KnowledgeStepDispatch /\ UNCHANGED <<execVars, navVars, gateVars, browVars, robVars, planVars, webVars, repVars, normVars, ovVars, vpVars, inVars, uiVars, wsVars>>
    \/ \E raised \in BOOLEAN, r \in UNION {SourceAnswers(ArgsOf(s)) : s \in KnowledgeSteps} : KnowledgeSourceDone(raised, r) /\ UNCHANGED <<execVars, navVars, gateVars, browVars, robVars, planVars, webVars, repVars, normVars, ovVars, vpVars, inVars, uiVars, wsVars>>
    \/ KnowledgeSleepDone /\ UNCHANGED <<execVars, navVars, gateVars, browVars, robVars, planVars, webVars, repVars, normVars, ovVars, vpVars, inVars, uiVars, wsVars>>

\* visit_page calls of two tasks, interleaved at their awaits
VisitsNext ==
    \/ \E c \in Visitors, u \in ResultUrls : VisitCall(c, u) /\ UNCHANGED <<execVars, navVars, gateVars, browVars, robVars, regVars, planVars, webVars, repVars, normVars, ovVars, ksVars, inVars, uiVars, wsVars>>
    \/ \E c \in Visitors, ok \in BOOLEAN : VisitGotoDone(c, ok) /\ UNCHANGED <<execVars, navVars, gateVars, browVars, robVars, regVars, planVars, webVars, repVars, normVars, ovVars, ksVars, inVars, uiVars, wsVars>>
    \/ \E c \in Visitors : VisitLoaded(c) /\ UNCHANGED <<execVars, navVars, gateVars, browVars, robVars, regVars, planVars, webVars, repVars, normVars, ovVars, ksVars, inVars, uiVars, wsVars>>
    \/ \E c \in Visitors : VisitTitle(c) /\ UNCHANGED <<execVars, navVars, gateVars, browVars, robVars, regVars, planVars, webVars, repVars, normVars, ovVars, ksVars, inVars, uiVars, wsVars>>
    \/ \E c \in Visitors : VisitContent(c) /\ UNCHANGED <<execVars, navVars, gateVars, browVars, robVars, regVars, planVars, webVars, repVars, normVars, ovVars, ksVars, inVars, uiVars, wsVars>>
    \/ \E c \in Visitors : VisitMetadata(c) /\ UNCHANGED <<execVars, navVars, gateVars, browVars, robVars, regVars, planVars, webVars, repVars, normVars, ovVars, ksVars, inVars, uiVars, wsVars>>

\* execute_research_plan called again and again on one TaskExecutor
SessionsNext ==
    \/ ExecuteCall /\ UNCHANGED <<navVars, gateVars, browVars, robVars, planVars, webVars, repVars, normVars, ovVars, ksVars, vpVars, uiVars, wsVars>>
    \/ \E ok \in BOOLEAN : BrowserSessionInitialized(ok) /\ UNCHANGED <<navVars, gateVars, browVars, robVars, planVars, webVars, repVars, normVars, ovVars, ksVars, vpVars, uiVars, wsVars>>
    \/ \E done \in InitialisableSets : SourcesInitialized(done) /\ UNCHANGED <<navVars, gateVars, browVars, robVars, planVars, webVars, repVars, normVars, ovVars, ksVars, vpVars, uiVars, wsVars>>
    \/ ExecuteReturned /\ UNCHANGED <<navVars, gateVars, browVars, robVars, planVars, webVars, repVars, normVars, ovVars, ksVars, vpVars, uiVars, wsVars>>

\* requests to the web front end and the background tasks they start
WebInterfaceNext ==
    \/ \E q \in QueryIds : StartResearch(q) /\ UNCHANGED <<execVars, navVars, gateVars, browVars, robVars, regVars, planVars, webVars, repVars, normVars, ovVars, ksVars, vpVars, inVars, wsVars>>
    \/ \E q \in QueryIds : ConductResearch(q) /\ UNCHANGED <<execVars, navVars, gateVars, browVars, robVars, regVars, planVars, webVars, repVars, normVars, ovVars, ksVars, vpVars, inVars, wsVars>>
    \/ \E q \in QueryIds, n \in PlanSizes : PlanReady(q, n) /\ UNCHANGED <<execVars, navVars, gateVars, browVars, robVars, regVars, planVars, webVars, repVars, normVars, ovVars, ksVars, vpVars, inVars, wsVars>>
    \/ \E q \in QueryIds : ResearchDone(q) /\ UNCHANGED <<execVars, navVars, gateVars, browVars, robVars, regVars, planVars, webVars, repVars, normVars, ovVars, ksVars, vpVars, inVars, wsVars>>
    \/ \E q \in QueryIds : ReportStored(q) /\ UNCHANGED <<execVars, navVars, gateVars, browVars, robVars, regVars, planVars, webVars, repVars, normVars, ovVars, ksVars, vpVars, inVars, wsVars>>
    \/ \E q \in QueryIds : ResearchRaised(q) /\ UNCHANGED <<execVars, navVars, gateVars, browVars, robVars, regVars, planVars, webVars, repVars, normVars, ovVars, ksVars, vpVars, inVars, wsVars>>
    \/ \E q \in QueryIds : TaskRemoved(q) /\ UNCHANGED <<execVars, navVars, gateVars, browVars, robVars, regVars, planVars, webVars, repVars, normVars, ovVars, ksVars, vpVars, inVars, wsVars>>
    \/ \E q \in QueryIds : GetResearchResult(q) /\ UNCHANGED <<execVars, navVars, gateVars, browVars, robVars, regVars, planVars, webVars, repVars, normVars, ovVars, ksVars, vpVars, inVars, wsVars>>

\* the query coroutines of the web search source and the clock
SearchNext ==
    \/ \E c \in Searchers : SearchCall(c) /\ UNCHANGED <<execVars, navVars, gateVars, browVars, robVars, regVars, planVars, webVars, repVars, normVars, ovVars, ksVars, vpVars, inVars, uiVars>>
    \/ \E c \in Searchers : PacingDone(c) /\ UNCHANGED <<execVars, navVars, gateVars, browVars, robVars, regVars, planVars, webVars, repVars, normVars, ovVars, ksVars, vpVars, inVars, uiVars>>
    \/ \E c \in Searchers : SearchAnswered(c) /\ UNCHANGED <<execVars, navVars, gateVars, browVars, robVars, regVars, planVars, webVars, repVars, normVars, ovVars, ksVars, vpVars, inVars, uiVars>>
    \/ SearchClockTick /\ UNCHANGED <<execVars, navVars, gateVars, browVars, robVars, regVars, planVars, webVars, repVars, normVars, ovVars, ksVars, vpVars, inVars, uiVars>>

\* one execution of a research plan
SpecExec == InitExec /\ [][ExecNext]_vars

\* callers of prepare_navigation on one NavigationManager
SpecNav == InitNav /\ [][NavNext]_vars

\* can_navigate over its inputs
SpecGate == InitGate /\ [][GateNext]_vars

\* operations on one BrowserSession
SpecBrowser == InitBrowser /\ [][BrowNext]_vars

\* callers of can_fetch on one RobotsParser
SpecRobots == InitRobots /\ [][RobotsNext]_vars

\* callers of query on one KnowledgeSourceManager
SpecRegistry == InitRegistry /\ [][RegistryNext]_vars

\* one query through the planner and then the executor
SpecPlan == InitPlan /\ [][PlanNext]_vars

\* one web_search step: the search, then one visit per kept result
SpecWeb == InitWeb /\ [][WebNext]_vars

\* one generate_report or format_citations call on a research_results record
SpecReport == InitReport /\ [][ReportNext]_vars

\* normalize_url on every string of the alphabet, twice
SpecNormalize == InitNormalize /\ [][NormalizeNext]_vars

\* two requests of the web front end running on the one executor
SpecOverlap == InitOverlap /\ [][OverlapNext]_vars

\* knowledge_source steps of every plan, with every initialised set of sources
SpecKnowledge == InitKnowledge /\ [][KnowledgeNext]_vars

\* two tasks visiting pages with the one browser session of the executor
SpecVisits == InitVisits /\ [][VisitsNext]_vars

\* the initialisations of several executions on one TaskExecutor
SpecSessions == InitSessions /\ [][SessionsNext]_vars

\* the web front end serving two research requests
SpecWebInterface == InitWebInterface /\ [][WebInterfaceNext]_vars

\* two coroutines querying one Web_searchSource
SpecSearch == InitSearch /\ [][SearchNext]_vars

\* the event loop resumes every coroutine that can run (a robots.txt answer
\* that has arrived, a free lock handed to its first waiter, a sleep that is
\* over) and time advances
NavFairness ==
    LET rest == <<execVars, gateVars, browVars, robVars, regVars, planVars,
                  webVars, repVars, normVars, ovVars, ksVars, vpVars, inVars,
                  uiVars, wsVars>>
    IN /\ \A c \in Callers :
              /\ WF_vars((\E a \in BOOLEAN : RobotsAnswer(c, a)) /\ UNCHANGED rest)
              /\ WF_vars(LockGranted(c) /\ UNCHANGED rest)
              /\ WF_vars(WakeRpm(c) /\ UNCHANGED rest)
              /\ WF_vars(WakeDelay(c) /\ UNCHANGED rest)
       /\ WF_vars(TimePasses /\ UNCHANGED rest)

\* the rate limiter of any configuration, under fair scheduling and advancing time
SpecNavFair == InitNavFair /\ [][NavFairNext]_vars /\ NavFairness

(***************************************************************************)
(* Properties of the TaskExecutor                                          *)
(***************************************************************************)
Results == research_results.results

\* C1: whatever its steps do (complete, report an error, raise), an execution
\* that returns hands back a record with completed_steps = len(steps) and
\* status "complete"; and no step can make the execution end any other way:
\* once a step has been dispatched the execution never ends by raising.
C1_ReturnsAllStepsComplete ==
    /\ ex_pc = "returned" =>
          /\ research_results.completed_steps = Len(plan)
          /\ research_results.total_steps = Len(plan)
          /\ research_results.status = "complete"
    /\ ex_pc = "raised" => dispatched = << >>

C1_Witness ==
    /\ ex_pc = "returned"
    /\ Len(plan) >= 2
    /\ \E k \in 1..Len(outcomes) : outcomes[k] # "ok"
    /\ \E k \in 1..Len(outcomes) : outcomes[k] = "ok"

\* C2: a dispatch that raises leaves an "error" StepResult carrying the raised
\* message at the position of its step, and the loop goes on: an execution
\* that returns has dispatched and finished every step of the plan.
C2_RaisedStepBecomesErrorResult ==
    /\ \A k \in 1..Len(outcomes) :
          outcomes[k] # "ok" =>
             /\ k <= Len(Results)
             /\ Results[k].status = "error"
             /\ Results[k].error = outcomes[k]
    /\ ex_pc = "returned" =>
          /\ Len(outcomes) = Len(plan)
          /\ Len(Results) = Len(plan)

C2_Witness ==
    /\ ex_pc = "returned"
    /\ \E k \in 1..(Len(plan) - 1) :
          /\ outcomes[k] \in ErrMsgs
          /\ Results[k].error = outcomes[k]
          /\ outcomes[k + 1] = "ok"
          /\ Results[k + 1].status = "complete"

\* C3 (as claimed): execute_research_plan never ends by propagating an
\* exception to its caller.
C3_NeverPropagates == ex_pc # "raised"

\* C4: the steps are dispatched once each and in plan order, the dispatch of a
\* step begins only when the results of all earlier steps have been appended,
\* and results[k] is the outcome of steps[k].
C4_SequentialExactlyOnce ==
    /\ Len(dispatched) <= Len(plan)
    /\ \A k \in 1..Len(dispatched) : dispatched[k] = k
    /\ Len(Results) = IF ex_pc = "dispatched" THEN Len(dispatched) - 1 ELSE Len(dispatched)
    /\ \A k \in 1..Len(Results) :
          /\ Results[k].type = plan[k]
          /\ Results[k].status = "complete" <=> (outcomes[k] = "ok" /\ plan[k] \in KnownTypes)

C4_Witness ==
    /\ ex_pc = "returned"
    /\ Len(Results) >= 2
    /\ Results[1].type # Results[2].type
    /\ dispatched = <<1, 2>>

(***************************************************************************)
(* Properties of the RateLimiter and of prepare_navigation                 *)
(***************************************************************************)
\* the recorded requests of domain d, oldest first
DomainRecords(d) == SelectSeq(recorded, LAMBDA r : Domain(r.url) = d)

AcquireStates == {"lockwait", "sleep_rpm", "sleep_delay"}

\* C5 (as claimed): for every domain, the (requests_per_minute + 1)-th request
\* is recorded at least 60 seconds after the first of the requests_per_minute
\* requests before it.
C5_SlidingWindow ==
    \A u \in NavURLs :
       LET rs == DomainRecords(Domain(u))
       IN \A k \in 1..Len(rs) :
             k + RequestsPerMinute <= Len(rs) =>
                rs[k + RequestsPerMinute].time - rs[k].time >= Window

\* C6: a caller is only ever held up by its own domain: a caller queued on a
\* lock is queued behind another caller of the same domain (or is about to be
\* given the lock), and a caller asleep in acquire belongs to a domain that
\* already has recorded requests.
C6_DomainsIndependent ==
    \A c \in Callers :
       LET d == Domain(c_url[c])
       IN /\ c_pc[c] = "lockwait" =>
                \/ Runnable(c)
                \/ \E c2 \in Callers \ {c} :
                      /\ Domain(c_url[c2]) = d
                      /\ c_pc[c2] \in AcquireStates
          /\ c_pc[c] \in {"sleep_rpm", "sleep_delay"} => DomainRecords(d) # << >>

\* a caller's request is recorded at once while a caller of another domain
\* sleeps inside acquire holding that domain's lock
C6_Witness ==
    \E c, c2 \in Callers :
       /\ c_pc[c2] = "sleep_rpm"
       /\ c_wake[c2] > now
       /\ domain_locks[LockKey(Domain(c_url[c2]))].holder = c2
       /\ c_pc[c] = "returned"
       /\ c_result[c] = "True"
       /\ Domain(c_url[c]) # Domain(c_url[c2])
       /\ c_call[c] > c_call[c2]
       /\ \E k \in 1..Len(recorded) : recorded[k].call = c_call[c] /\ recorded[k].time = now

\* C7 (as claimed): while a caller holds the lock of a domain, the timestamp
\* list of that domain is changed by that caller only.
C7_MutationUnderLock ==
    [][\A u \in NavURLs :
          LET d == Domain(u)
              k == LockKey(d)
          IN (/\ Stamps(domain_timestamps', d) # Stamps(domain_timestamps, d)
              /\ k \in DOMAIN domain_locks
              /\ domain_locks[k].holder # 0)
             => c_pc'[domain_locks[k].holder] # c_pc[domain_locks[k].holder]]_vars

\* C8 (as claimed): every url the browser session hands to page.goto is one
\* that can_navigate accepts and for which prepare_navigation has returned
\* True (so that a request was recorded by the rate limiter for it).
C8_GateBeforeFetch ==
    \A u \in fetched :
       /\ UrlValid(u)
       /\ SiteRulesAllow(DefaultSiteRules, u)
       /\ \E k \in 1..Len(recorded) : recorded[k].url = u

\* the requests recorded by the current call of caller c
CallRecords(c) == {k \in 1..Len(recorded) : recorded[k].call = c_call[c]}

\* C9: prepare_navigation returns the verdict of can_navigate; a call that
\* returns False has recorded nothing, a call that returns True has recorded
\* exactly one request, a call still in progress none; and every domain that
\* has a lock or a timestamp list got it from a call whose verdict was True.
C9_PrepareNavigation ==
    /\ \A c \in Callers :
          /\ c_pc[c] = "returned" =>
                /\ c_result[c] = c_verdict[c]
                /\ c_result[c] \in {"True", "False"}
                /\ Cardinality(CallRecords(c)) = IF c_result[c] = "True" THEN 1 ELSE 0
          /\ c_pc[c] \in AcquireStates \cup {"robots"} => CallRecords(c) = {}
          /\ c_pc[c] \in AcquireStates => c_verdict[c] = "True"
    /\ \A k \in 1..Len(recorded) :
          UrlValid(recorded[k].url) /\ SiteRulesAllow(DefaultSiteRules, recorded[k].url)
    /\ \A d \in DOMAIN domain_locks \cup DOMAIN domain_timestamps :
          \/ DomainRecords(d) # << >>
          \/ \E c \in Callers :
                c_pc[c] \in AcquireStates /\ Domain(c_url[c]) = d /\ c_verdict[c] = "True"

\* one call was rejected and left no lock behind, another was let through
C9_Witness ==
    \E c, c2 \in Callers :
       /\ c_pc[c] = "returned" /\ c_result[c] = "False"
       /\ Domain(c_url[c]) \notin DOMAIN domain_locks
       /\ Domain(c_url[c]) \notin DOMAIN domain_timestamps
       /\ c_pc[c2] = "returned" /\ c_result[c2] = "True"
       /\ Cardinality(CallRecords(c2)) = 1

(***************************************************************************)
(* Property of can_navigate                                                *)
(***************************************************************************)
\* the condition under which can_navigate is said to return True
NavigableAsStated(u, respect, robotsAllows, rules) ==
    /\ u.scheme # "" /\ u.netloc # << >>
    /\ ~respect \/ robotsAllows
    /\ \A k \in 1..Len(rules) :
          Contains(u.netloc, rules[k].domain) =>
             /\ \A j \in 1..Len(rules[k].disallowed_paths) :
                   ~StartsWith(u.path, rules[k].disallowed_paths[j])
             /\ rules[k].allowed_paths # << >> =>
                   \E j \in 1..Len(rules[k].allowed_paths) :
                      StartsWith(u.path, rules[k].allowed_paths[j])

\* C10: can_navigate returns True exactly when the url has a scheme and a
\* host, robots compliance is off or the robots checker allows the url, and
\* every site rule whose key occurs in the host lets the path through; with
\* robots compliance off the robots checker is never called.
C10_CanNavigate ==
    /\ g_pc = "returned" =>
          g_verdict = BoolStr(NavigableAsStated(g_url, g_respect, g_robots_allows, g_rules))
    /\ ~g_respect => g_robots_calls = 0
    /\ g_robots_calls <= 1

\* a host that merely contains a rule's key is rejected by that rule alone
C10_Witness ==
    /\ g_pc = "returned"
    /\ g_url = UrlMirror
    /\ ~g_respect
    /\ g_rules = DefaultSiteRules
    /\ g_verdict = "False"
    /\ g_robots_calls = 0

(***************************************************************************)
(* Properties of the robots.txt cache                                      *)
(***************************************************************************)
\* C11: two robots.txt requests for one domain are never sent within one
\* TTL window of each other, whether the second call starts after the first
\* has returned or while the first is still waiting for its request.
C11_OneFetchPerWindow ==
    \A i, j \in 1..Len(r_fetches) :
        (i < j /\ r_fetches[i].domain = r_fetches[j].domain)
            => r_fetches[j].at - r_fetches[i].at >= CacheTtl

\* C12: a call whose robots.txt request ended with a non-200 status or an
\* error returns True, and so does every later call answered from the
\* entry that request left in the cache.
C12_FailOpen ==
    /\ r_last.how \in {"404", "error"} => r_last.ret = "True"
    /\ (/\ r_last.how = "cached"
        /\ robot_parsers[Domain(r_last.url)] = SetDisallowAllFalse(NewParser))
           => r_last.ret = "True"

(***************************************************************************)
(* Properties of the knowledge source cache                                *)
(***************************************************************************)
\* the last n elements of a sequence
Suffix(s, n) == SubSeq(s, Len(s) - n + 1, Len(s))

\* the arguments of the query call made by a step that starts a call
CalledArgs ==
    IF k_invoked' > k_invoked
    THEN CHOOSE a \in QueryArgs :
            \E q \in Queriers :
               k_pc[q] = "idle" /\ k_pc'[q] = "querying" /\ k_args'[q] = a
    ELSE k_last'.args

\* this step is a call of query
CallStep == k_calls' = k_calls + 1

\* C13: with caching enabled the cache never holds more than max_size
\* entries, and its keys are always the most recently inserted ones, in the
\* order they were inserted: pruning removes the keys inserted first, and a
\* cache hit does not change the order.
C13_OldestInsertedEvicted ==
    k_cache_enabled =>
        /\ Len(k_cache) <= MaxCacheSize
        /\ CacheKeys(k_cache) =
              Suffix(k_inserted, IF Len(k_inserted) < MaxCacheSize
                                 THEN Len(k_inserted) ELSE MaxCacheSize)

\* max_size + 1 keys were inserted, the first of them was read from the cache
\* before the last insertion, and it is the one that was evicted
C13_Witness ==
    /\ k_cache_enabled
    /\ Len(k_inserted) = MaxCacheSize + 1
    /\ Len(k_cache) = MaxCacheSize
    /\ k_inserted[1] \in k_hits
    /\ ~InCache(k_cache, k_inserted[1])

C15_RejectedSource ==
    [][ (CallStep /\ (\/ CalledArgs.source \notin EnabledSources
                      \/ CalledArgs.source \notin k_sources))
          => /\ k_invoked' = k_invoked
             /\ k_pc' = k_pc
             /\ k_last'.how \in {"not_enabled", "not_initialized"}
             /\ k_last'.ret = << >>
             /\ k_cache' = k_cache
             /\ k_hits' = k_hits ]_vars

\* an enabled source that was not initialised was turned away while the
\* cache held entries
C15_Witness ==
    /\ k_last.how = "not_initialized"
    /\ k_last.args.source \in EnabledSources
    /\ k_cache # << >>

\* C16: when the source raises, query returns an empty result and the cache
\* is left as it was; a later call with the same triple, not stored by any
\* other call, calls the source again.
C16_SourceFailureNotCached ==
    [][ /\ \A q \in Queriers :
              (k_pc[q] = "querying" /\ k_pc'[q] = "idle" /\ k_last'.how = "raised")
                 => /\ k_last'.ret = << >>
                    /\ k_last'.args = k_args[q]
                    /\ k_cache' = k_cache
        /\ (/\ CallStep
            /\ k_last.how = "raised"
            /\ CalledArgs = k_last.args
            /\ \A i \in 1..Len(k_cache) : k_cache[i].args # k_last.args)
              => k_invoked' = k_invoked + 1 ]_vars

\* with caching enabled and an entry of another query in the cache, a
\* source raised and is being asked the same triple again
C16_Witness ==
    /\ k_cache_enabled
    /\ k_last.how = "raised"
    /\ k_cache # << >>
    /\ \A i \in 1..Len(k_cache) : k_cache[i].args # k_last.args
    /\ k_invoked = 3
    /\ \E q \in Queriers :
          /\ k_pc[q] = "querying"
          /\ k_args[q] = k_last.args
          /\ \A o \in Queriers \ {q} : k_pc[o] = "idle"

(***************************************************************************)
(* Properties of the ResearchPlanner                                       *)
(***************************************************************************)
\* create_research_plan has ended, by returning a plan or by raising
PlannerEnded == p_pc \in {"returned", "raised"}

\* the steps of the plan other than the trailing follow-up step
BodySteps == SelectSeq(p_steps, LAMBDA s : s.type # "generate_followup")

\* the source a step asks
StepSource(s) == IF s.type = "web_search" THEN "web_search" ELSE s.source

\* number of positions of a sequence that hold x
Occurrences(seq, x) == Cardinality({i \in 1..Len(seq) : seq[i] = x})

\* C17: when the model's reply is not JSON, create_research_plan returns a
\* plan whose analysis has sub_questions = [query] and whose steps are one
\* web_search step asking the raw query; there is no follow-up step and the
\* model was asked once.
C17_FallbackPlan ==
    (PlannerEnded /\ p_reply.shape = "text") =>
        /\ p_pc = "returned"
        /\ p_analysis.fields["sub_questions"] = <<p_query>>
        /\ Len(p_steps) = 1
        /\ p_steps[1].type = "web_search"
        /\ p_steps[1].query = p_query
        /\ p_llm_calls = 1

\* a plan built from a reply that is not JSON has been executed
C17_Witness ==
    /\ p_pc = "returned"
    /\ p_reply.shape = "text"
    /\ ex_pc = "returned"
    /\ Len(Results) = 1

\* the reply does not have the required shape
NonConforming(reply) ==
    \/ reply.shape = "text"
    \/ reply.value.type # "dict"
    \/ "priority_order" \notin DOMAIN reply.value.fields
    \/ "search_terms" \notin DOMAIN reply.value.fields

\* C18: for every reply that does not have the required shape (not JSON,
\* JSON that is not an object, an object without priority_order or without
\* search_terms) create_research_plan returns a plan, built from the
\* fallback analysis.
C18_NonConformingFallsBack ==
    (PlannerEnded /\ NonConforming(p_reply)) =>
        /\ p_pc = "returned"
        /\ p_analysis.type = "dict"
        /\ "sub_questions" \in DOMAIN p_analysis.fields
        /\ p_analysis.fields["sub_questions"] = <<p_query>>
        /\ p_analysis.fields["priority_order"] = <<"web_search">>

\* C19: the steps of a plan follow priority_order (each step belongs to an
\* entry of priority_order, and later steps to the same or a later entry),
\* the web_search steps of one entry follow the order in which the terms
\* were listed, and the executor dispatches the steps in plan order, its
\* k-th result being the result of the k-th step.
C19_OrderPreserved ==
    /\ (p_pc = "returned" /\ ex_pc = "idle") =>
          LET po == p_analysis.fields["priority_order"]
              n == Len(BodySteps)
          IN \E f \in [1..n -> 1..Len(po)] :
                /\ \A i \in 1..n : StepSource(BodySteps[i]) = po[f[i]]
                /\ \A i, j \in 1..n : i < j => f[i] <= f[j]
                /\ \A i, j \in 1..n :
                      (/\ i < j
                       /\ f[i] = f[j]
                       /\ BodySteps[i].type = "web_search"
                       /\ p_analysis.fields["search_terms"]["web_search"].kind = "list")
                         => LET terms == p_analysis.fields["search_terms"]["web_search"].val
                            IN \E a, b \in 1..Len(terms) :
                                  /\ a < b
                                  /\ terms[a] = BodySteps[i].query
                                  /\ terms[b] = BodySteps[j].query
    /\ (p_pc = "returned" /\ ex_pc # "idle") =>
          /\ plan = [k \in 1..Len(p_steps) |-> p_steps[k].type]
          /\ dispatched = [k \in 1..Len(dispatched) |-> k]
          /\ \A k \in 1..Len(Results) : Results[k].type = p_steps[k].type

\* a plan with a wikipedia step followed by two web_search steps, in the
\* order of its priority_order and of its two listed terms, has been run to
\* the end
C19_Witness ==
    /\ p_pc = "returned"
    /\ ex_pc = "returned"
    /\ p_analysis.fields["priority_order"] = <<"wikipedia", "web_search">>
    /\ Len(BodySteps) = 3
    /\ BodySteps[2].query = TermA
    /\ BodySteps[3].query = TermB
    /\ Len(Results) = Len(p_steps)

C21_FollowupIffRequired ==
    p_pc = "returned" =>
        LET wanted == /\ "requires_followup" \in DOMAIN p_analysis.fields
                      /\ p_analysis.fields["requires_followup"] = TRUE
            at == {i \in 1..Len(p_steps) : p_steps[i].type = "generate_followup"}
        IN IF wanted THEN at = {Len(p_steps)} /\ Len(p_steps) >= 1
           ELSE at = {}

\* a plan with two steps before its trailing follow-up step
C21_Witness ==
    /\ p_pc = "returned"
    /\ Len(p_steps) = 3
    /\ p_steps[3].type = "generate_followup"
    /\ p_analysis.fields["requires_followup"] = TRUE

(***************************************************************************)
(* Properties of the web_search step                                       *)
(***************************************************************************)

\* the visits of the loop that extracted a page
ExtractedVisits == {i \in 1..Len(w_visits) : w_visits[i] = "extracted"}

\* C22: when a web_search step has returned, its status is "complete", its
\* enriched list holds one record per visit that extracted a page (a visit
\* that raised or whose navigation failed contributes none), and every
\* record's content is the extracted content of a visited page.
C22_FailedVisitsOmitted ==
    w_pc = "returned" =>
        /\ w_return.status = "complete"
        /\ Len(w_visits) = Len(Take(search_results, w_max_results))
        /\ Len(w_return.results) = Cardinality(ExtractedVisits)
        /\ \A i \in 1..Len(w_return.results) :
               /\ "error" \notin DOMAIN w_return.results[i].content
               /\ "content" \in DOMAIN w_return.results[i].content

(***************************************************************************)
(* Properties of the ReportGenerator                                       *)
(***************************************************************************)

Heading == <<"#", " ">>

\* C23: the text generate_report returns begins with "# ": a reply that
\* already begins so is returned unchanged, any other reply (the empty one
\* and error messages included) is returned behind a heading built from
\* the query.
C23_ReportBeginsWithHeading ==
    [][(rep_pc = "awaiting_report" /\ rep_pc' = "returned") =>
          /\ StartsWith(rep_report', Heading)
          /\ \E reply \in LlmReports :
                 IF StartsWith(reply, Heading)
                 THEN rep_report' = reply
                 ELSE rep_report' =
                          Heading \o <<"Research Report: ">> \o rep_results.query
                                  \o <<"\n\n">> \o reply]_vars

\* an error message of the model was returned behind the query's heading
C23_Witness ==
    /\ rep_pc = "returned"
    /\ rep_report = <<"#", " ", "Research Report: ", "q", "c", "\n\n",
                      "E", "r", "r", "o", "r", ":", " ", "x">>

\* the characters of an item's content text (for a page record, of the
\* extracted page text)
ContentChars(item) ==
    IF "content" \in DOMAIN item THEN TextChars(item.content) ELSE 0

\* C24: generate_report summarises exactly when the serialised results
\* exceed 6000 characters; then every item of a web_search or
\* knowledge_source StepResult whose content text exceeds 800 characters
\* carries a summary and summarized = TRUE, and every other item is
\* unchanged; otherwise no summarize call is made.
C24_SummarisedWhenLong ==
    rep_pc \in {"awaiting_report", "returned"} =>
        IF SerialisedLength(rep_results) <= SerialisedLimit
        THEN rep_summarize_calls = 0 /\ rep_prompt_results = rep_results
        ELSE \A i \in 1..Len(rep_results.results) :
                 rep_results.results[i].type \in {"web_search", "knowledge_source"} =>
                     \A j \in 1..Len(GetResults(rep_results.results[i])) :
                         LET before == GetResults(rep_results.results[i])[j]
                             after  == rep_prompt_results.results[i].results[j]
                         IN IF ContentChars(before) > ContentLimit
                            THEN /\ "summarized" \in DOMAIN after
                                 /\ after.summarized = TRUE
                                 /\ after.content \in Summaries
                            ELSE after = before

RECURSIVE FlattenItems(_)
FlattenItems(steps) ==
    IF steps = << >> THEN << >>
    ELSE (IF Head(steps).type \in {"web_search", "knowledge_source"}
          THEN GetResults(Head(steps)) ELSE << >>) \o FlattenItems(Tail(steps))

HasTitleAndUrl(item) == {"title", "url"} \subseteq DOMAIN item

\* the items with a title and a url, in step order and then item order
CitableItems == SelectSeq(FlattenItems(rep_results.results), HasTitleAndUrl)

\* C25: format_citations emits one line per item of a web_search or
\* knowledge_source StepResult that has a title and a url, numbered 1..n
\* across all steps in step order and then item order, and returns the
\* empty string when there is no such item.
C25_OneLinePerCitableItem ==
    rep_pc = "cited" =>
        LET n == Len(CitableItems)
        IN IF n = 0 THEN rep_citations = << >>
           ELSE /\ Len(rep_citations) = 2 * n
                /\ rep_citations[1] = "## References\n\n"
                /\ \A k \in 1..n :
                       LET line == rep_citations[2 * k]
                       IN /\ StartsWith(line, IntStr(k) \o <<". ", CitableItems[k].title>>)
                          /\ line[Len(line)] = CitableItems[k].url
                /\ \A k \in 1..(n - 1) : rep_citations[2 * k + 1] = "\n"

\* three lines: two pages of a web_search step, then a Wikipedia article
\* next to an item without a url
C25_Witness ==
    /\ rep_pc = "cited"
    /\ Len(CitableItems) = 3
    /\ Len(FlattenItems(rep_results.results)) = 4
    /\ rep_results.results[1].type = "web_search"
    /\ StartsWith(rep_citations[6], <<"3">>)

(***************************************************************************)
(* Properties of normalize_url                                             *)
(***************************************************************************)

\* the path of a string, as urlparse reads it
PathOf(url) == UrlParse(url).path

\* C26, first part: normalize_url(normalize_url(u)) = normalize_url(u)
C26_Idempotent == n_pc = "twice" => n_twice = n_once

\* C26, second part: the result has no fragment, no repeated path
\* separators and no trailing slash except for the root path
C26_ResultShape ==
    n_pc \in {"once", "twice"} =>
        /\ "#" \notin Chars(n_once)
        /\ ~Contains(PathOf(n_once), <<"/", "/">>)
        /\ \/ PathOf(n_once) = << >>
           \/ PathOf(n_once) = <<"/">>
           \/ PathOf(n_once)[Len(PathOf(n_once))] # "/"

\* C26: normalize_url is idempotent on every input string and its result
\* has no fragment, no repeated path separators and no trailing slash
\* except for the root path.
C26_NormalizeIdempotent == C26_Idempotent /\ C26_ResultShape

(***************************************************************************)
(* Properties of overlapping executions                                    *)
(***************************************************************************)

\* execution e took this step
Moved(e) == o_pc'[e] # o_pc[e]

\* C27: each execution works on its own record: the dict an execution
\* created is changed only by steps of that execution, and never again
\* once its status is "complete".
C27_OwnRecord ==
    [][\A e \in Executions :
          /\ records'[e] # records[e] => Moved(e)
          /\ records[e].status = "complete" => records'[e] = records[e]]_vars

(***************************************************************************)
(* Termination of RateLimiter.acquire                                      *)
(***************************************************************************)

InAcquire(c) == c_pc[c] \in {"lockwait", "sleep_rpm", "sleep_delay"}

\* C28: acquire never fails, and every caller suspended inside acquire
\* (queued on the lock or asleep) eventually records its request and
\* returns.
C28_AcquireReturns ==
    /\ [](\A c \in Callers : c_pc[c] # "raised")
    /\ \A c \in Callers :
           InAcquire(c) ~> (c_pc[c] = "returned" /\ c_result[c] = "True")

(***************************************************************************)
(* The record of one plan execution                                        *)
(***************************************************************************)

\* the execution has created its record
RecordExists == ex_pc \in {"loop", "dispatched", "sleeping", "returned"}

\* C29: in every state of one plan execution that has created its record,
\* len(results) <= completed_steps <= total_steps, total_steps is the number
\* of steps of the plan, and status is "complete" only if completed_steps =
\* total_steps; a status that is "complete" stays "complete".
C29_RecordInvariant ==
    /\ [](RecordExists =>
            /\ Len(Results) <= research_results.completed_steps
            /\ research_results.completed_steps <= research_results.total_steps
            /\ research_results.total_steps = Len(plan)
            /\ research_results.status \in {"in_progress", "complete"}
            /\ research_results.status = "complete" =>
                   research_results.completed_steps = research_results.total_steps)
    /\ [][research_results.status = "complete" =>
              research_results'.status = "complete"]_vars

\* two of three steps done, one of them failed, the record still in progress
C29_Witness ==
    /\ ex_pc = "sleeping"
    /\ research_results.status = "in_progress"
    /\ research_results.completed_steps = 2
    /\ research_results.total_steps = 3
    /\ \E k \in 1..2 : Results[k].status = "error"

(***************************************************************************)
(* The minimum delay between the requests of a domain                      *)
(***************************************************************************)

\* C30: for every domain, two requests recorded one after the other are at
\* least delay_between_requests seconds apart, whether their callers ran
\* one after the other or overlapped inside acquire.
C30_MinimumDelay ==
    \A u \in NavURLs :
        LET rs == DomainRecords(Domain(u))
        IN \A k \in 1..(Len(rs) - 1) :
               rs[k + 1].time - rs[k].time >= delay_between_requests

(***************************************************************************)
(* The pauses between the steps of a plan                                  *)
(***************************************************************************)

\* the inter-step pauses begun so far by the execution in progress: every
\* pause that ended moved the loop index on by one
PausesBegun == (step_i - 1) + (IF ex_pc = "sleeping" THEN 1 ELSE 0)

\* C31: the executor pauses after every step except the last one and never
\* after the last one, whether the step succeeded or failed: a finished
\* execution of n >= 1 steps has made exactly n - 1 pauses, one of an empty
\* plan none.
C31_PausesBetweenSteps ==
    /\ [](ex_pc = "returned" =>
             PausesBegun = IF Len(plan) = 0 THEN 0 ELSE Len(plan) - 1)
    /\ [][Len(outcomes') = Len(outcomes) + 1 =>
             /\ Len(outcomes') < Len(plan) => ex_pc' = "sleeping"
             /\ Len(outcomes') = Len(plan) => ex_pc' = "returned"]_vars
    /\ [][(ex_pc' = "sleeping" /\ ex_pc # "sleeping") =>
             /\ Len(outcomes') = Len(outcomes) + 1
             /\ Len(outcomes') < Len(plan)]_vars

\* an execution of three steps, one of them failed, returned after two pauses
C31_Witness ==
    /\ ex_pc = "returned"
    /\ Len(plan) = 3
    /\ \E k \in 1..Len(outcomes) : outcomes[k] # "ok"
    /\ PausesBegun = 2

(***************************************************************************)
(* Freshness of the robots.txt cache                                       *)
(***************************************************************************)

\* the cached ruleset of domain d is younger than the TTL
FreshRuleset(d) ==
    /\ d \in DOMAIN robot_parsers
    /\ r_now - cache_timestamps[d] < CacheTtl

\* a can_fetch call starts in this step
CanFetchStarts == r_calls' = r_calls + 1

\* C32: a can_fetch call for a domain whose cached ruleset is younger than
\* the TTL is answered from the cache and sends no request; a call for a
\* domain whose ruleset is at least TTL old or absent sends the robots.txt
\* request, and the end of that request replaces the cached ruleset and its
\* timestamp.
C32_FreshFromCacheStaleRefetched ==
    /\ [][CanFetchStarts =>
             IF r_pc' = r_pc
             THEN /\ r_fetches' = r_fetches
                  /\ r_last'.how \in {"cached", "invalid"}
                  /\ r_last'.how = "cached" => FreshRuleset(Domain(r_last'.url))
                  /\ r_last'.how = "invalid" => Domain(r_last'.url) = << >>
             ELSE \E c \in RobotsCallers :
                     /\ r_pc[c] = "idle" /\ r_pc'[c] = "fetching"
                     /\ ~FreshRuleset(Domain(r_url'[c]))
                     /\ r_fetches' = Append(r_fetches,
                                            [domain |-> Domain(r_url'[c]), at |-> r_now])]_vars
    /\ [][\A c \in RobotsCallers :
             (r_pc[c] = "fetching" /\ r_pc'[c] = "idle") =>
                 LET d == Domain(r_url[c])
                 IN /\ d \in DOMAIN robot_parsers'
                    /\ robot_parsers'[d] \in {ParserAfterFetch(o) : o \in FetchOutcomes}
                    /\ robot_parsers'[d].last_checked = (r_last'.how = "200")
                    /\ cache_timestamps'[d] = r_current_time[c]]_vars

\* a domain was fetched, fetched again once its ruleset was TTL old, and a
\* later call was answered from the replaced entry
C32_Witness ==
    /\ r_last.how = "cached"
    /\ \E i, j \in 1..Len(r_fetches) :
          /\ i < j
          /\ r_fetches[i].domain = r_fetches[j].domain
          /\ r_fetches[j].at - r_fetches[i].at >= CacheTtl
          /\ r_last.url.netloc = r_fetches[j].domain
          /\ cache_timestamps[r_fetches[j].domain] = r_fetches[j].at

(***************************************************************************)
(* Properties of knowledge_source steps                                    *)
(***************************************************************************)

\* the source manager does not recognise the source a step names
Unrecognised(step) ==
    step.source \notin EnabledSources \/ step.source \notin k_sources

\* C33: a knowledge_source step naming a source that is not enabled or not
\* initialised does not fail the execution: its step result is complete
\* with an empty result list, the source is never called, and the
\* execution returns with one result per step and status "complete".
C33_UnrecognisedSourceIsNoOp ==
    /\ \A k \in 1..Len(ks_record.results) :
          /\ ks_record.results[k].status = "complete"
          /\ ks_record.results[k].source = ks_plan[k].source
          /\ Unrecognised(ks_plan[k]) => ks_record.results[k].results = << >>
    /\ \A k \in 1..Len(ks_asked) :
          ks_asked[k] \in EnabledSources /\ ks_asked[k] \in k_sources
    /\ ks_pc = "returned" =>
          /\ Len(ks_record.results) = Len(ks_plan)
          /\ ks_record.completed_steps = Len(ks_plan)
          /\ ks_record.status = "complete"

\* a returned execution whose first step named a source that is enabled
\* but not initialised and whose second step brought results
C33_Witness ==
    /\ ks_pc = "returned"
    /\ Len(ks_plan) = 2
    /\ ks_plan[1].source = "arxiv" /\ "arxiv" \notin k_sources
    /\ ks_record.results[1].results = << >>
    /\ ks_record.results[2].results # << >>

(***************************************************************************)
(* Search terms given as a single string                                   *)
(***************************************************************************)

\* C34: when search_terms holds a single string for a source that
\* priority_order names once, the plan has exactly one step for that
\* source and its query is the whole string; for web_search as well as
\* for wikipedia and arxiv.
C34_StringTermOneStep ==
    (/\ p_pc = "returned"
     /\ p_analysis.type = "dict"
     /\ "priority_order" \in DOMAIN p_analysis.fields
     /\ "search_terms" \in DOMAIN p_analysis.fields) =>
        LET po == p_analysis.fields["priority_order"]
            st == p_analysis.fields["search_terms"]
        IN \A src \in {"web_search", "wikipedia", "arxiv"} :
              (/\ src \in DOMAIN st
               /\ st[src].kind = "str"
               /\ Occurrences(po, src) = 1) =>
                  LET at == {i \in 1..Len(BodySteps) : StepSource(BodySteps[i]) = src}
                  IN /\ Cardinality(at) = 1
                     /\ \A i \in at : BodySteps[i].query = st[src]

(***************************************************************************)
(* The ReportGenerator leaves its input alone                              *)
(***************************************************************************)

\* the items of every step of a research_results record
AllItems(rr) ==
    UNION { {GetResults(rr.results[i])[j] : j \in 1..Len(GetResults(rr.results[i]))} :
              i \in 1..Len(rr.results) }

\* C35: generate_report and format_citations leave the research_results
\* they were given as it is: from the call on no step result, item or
\* content of it changes, and none of its items is marked summarized.
C35_InputUnchanged ==
    /\ [][rep_pc # "idle" => rep_results' = rep_results]_vars
    /\ [](rep_pc # "idle" =>
             \A item \in AllItems(rep_results) : "summarized" \notin DOMAIN item)

\* a report was generated from summarised results: the dictionary sent to
\* the model holds a summarised item, the input does not
C35_Witness ==
    /\ rep_pc = "returned"
    /\ rep_summarize_calls > 0
    /\ \E item \in AllItems(rep_prompt_results) : "summarized" \in DOMAIN item
    /\ rep_prompt_results.results # rep_results.results

(***************************************************************************)
(* Property of overlapping visit_page calls                                *)
(***************************************************************************)

\* C36: the record visit_page(url) returned holds the title, the content
\* and the metadata of the page at url, also when two calls on the one
\* BrowserSession overlap.
C36_RecordOfVisitedPage ==
    \A c \in Visitors :
        "title" \in DOMAIN vp_record[c] =>
            /\ vp_record[c].title = TitleOf(vp_record[c].url)
            /\ vp_record[c].content = ContentOf(vp_record[c].url)
            /\ vp_record[c].metadata = MetadataOf(vp_record[c].url)

(***************************************************************************)
(* Property of repeated initialisation                                     *)
(***************************************************************************)

\* C37: over any sequence of execute_research_plan calls on one
\* TaskExecutor the browser session is created at most once and every
\* knowledge source is initialised at most once, so that no source with an
\* open HTTP session is replaced.
C37_InitialisedAtMostOnce ==
    /\ in_sessions_created <= 1
    /\ \A s \in DOMAIN in_source_inits : in_source_inits[s] <= 1
    /\ in_replaced_open = 0

(***************************************************************************)
(* Property of the web front end                                           *)
(***************************************************************************)

\* C38: every query_id start_research returned is, at every later time, in
\* active_tasks or in results, and get_research_result never answers 404
\* for it; and whenever a task has status "complete" its report is in
\* results.
C38_IssuedIdsRetrievable ==
    \A q \in QueryIds :
        /\ q \in ui_issued => (InActiveTasks(q) \/ InResults(q))
        /\ q \in ui_issued => ui_response[q] # "404"
        /\ active_tasks[q].status = "complete" => InResults(q)


(***************************************************************************)
(* Property of the pacing of Web_searchSource.query                        *)
(***************************************************************************)

\* C39: any two requests issued by Web_searchSource.query are at least
\* 60 / requests_per_minute seconds apart, whether the queries follow one
\* another or overlap.
C39_RequestsPacedApart ==
    \A g \in ws_gaps : g >= MinimumInterval(ws_requests_per_minute)

=============================================================================
